---- MODULE Spec2Model ----
\* OneBotClient (src/unnamed/part_004): the forward socket with its reconnect
\* and heartbeat timers, the reverse listener, the action transport and the
\* request correlator, as one state machine.  Every handler of the client is
\* one atomic action; the handlers are composed from operators over a record
\* of the client's fields (Cur), in the order the code runs them.
EXTENDS Integers, Sequences, FiniteSets, TLC

\* ---------------------------------------------------------------- bounds
MaxAttempts == 7
MaxRev == 2
MaxCalls == 2
MaxSendCalls == 1
MaxStarts == 2
MaxEvents == 3
MaxOther == 1001
MaxLookups == 2
MaxLen == 4
MaxLimit == 5
MaxPayload == 3

\* the listener runs followed
MaxRuns == 2

\* the events of one account whose lookups are followed to the end
MaxSolo == 1

\* the segments of a message followed
MaxSegments == 2

\* the iterations of the chunking loop followed
MaxChunks == 5

\* ------------------------------------------------------ program constants
BaseDelay == 1000
maxReconnectDelay == 60000
HeartbeatInterval == 45000
RequestTimeoutMs == 5000
SendTextLimit == 4000
SweepThreshold == 1000

VARIABLES
    options,            \* OneBotClientOptions, immutable: which optional parts are set
    ws,                 \* this.ws: "null", or the readyState of the socket it refers to
    isAlive,            \* this.isAlive
    reconnectAttempts,  \* this.reconnectAttempts
    reconnectTimer,     \* this.reconnectTimer: 0 (null) or a timeout handle
    heartbeatTimer,     \* this.heartbeatTimer: 0 (null) or an interval handle
    timeouts,           \* the event loop's armed reconnect timeouts: [id, delay]
    intervals,          \* the event loop's armed heartbeat intervals: [id, period]
    selfId,             \* this.selfId: 0 (null) or the bot's id
    reverseWss,         \* this.reverseWss is set (the listener exists)
    reverseWs,          \* this.reverseWs: 0 (null) or the accepted connection
    rev,                \* readyState of each connection the listener has seen
    calls,              \* the sendAction / sendWithResponse calls in flight or done
    emitted,            \* the events the last handler emitted, in order
    httpReply,          \* the HTTP reply the last handler received, if any
    started,            \* history: connect() was called and disconnect() not since
    sinceTick,          \* history: what the heartbeat has seen since its last tick:
                        \* "open" (armed, no tick yet), "frame" (a frame came in),
                        \* "none" (nothing, or no heartbeat), "timeout" (it fired)
    firedSinceOpen,     \* history: reconnect timers fired since the last open
    liveSockets,        \* history: forward sockets this client created that are
                        \* still CONNECTING or OPEN
    inMap,              \* clients.has(accountId): the client is the account's
    starts,             \* startAccount() calls so far
    retired,            \* what earlier clients of the account were left with
                        \* when they were replaced: [live, armed]
    config,             \* the account's QQConfig, immutable
    processedMsgIds,    \* startAccount's processedMsgIds, the ids in MsgIds
    otherIds,           \* the number of further ids in processedMsgIds
    passedSinceClear,   \* history: how often each id in MsgIds got past the
                        \* deduplication since processedMsgIds was last emptied
    handlers,           \* the runs of the "message" listener for the events
                        \* with ids in MsgIds, in the order of their frames
    pipeline,           \* the runs that reached recordInboundSession(), in
                        \* the order they reached it
    job,                \* the outbound call under way (sendText, sendMedia,
                        \* the reply deliver path, or one of their helpers):
                        \* its arguments, its locals and where it stands
    sends,              \* the transport calls the outbound call has started,
                        \* in the order it started them
    memberCache,        \* the module-level map of member names, one entry
                        \* per "group:user" key, with the account whose
                        \* roster fetch stored it
    bulkCachedGroups,   \* the module-level set of the groups whose roster
                        \* was fetched, with the account that fetched it
    peerProcessed,      \* processedMsgIds of a second account started in
                        \* the same process
    runs,               \* the runs of the "message" listener, of the account
                        \* and of the second one, in the order of arrival:
                        \* the event, where the run stands, what it rendered
    form                \* a message, and the text the listener makes of its
                        \* segmented and of its inline-encoded form

vars == <<options, ws, isAlive, reconnectAttempts, reconnectTimer, heartbeatTimer,
          timeouts, intervals, selfId, reverseWss, reverseWs, rev, calls,
          emitted, httpReply, started, sinceTick, firedSinceOpen,
          liveSockets, inMap, starts, retired,
          config, processedMsgIds, otherIds, passedSinceClear, handlers, pipeline,
          job, sends, memberCache, bulkCachedGroups, peerProcessed, runs, form>>

\* the state of the channel plugin around the client
chanVars == <<config, processedMsgIds, otherIds, passedSinceClear, handlers, pipeline>>

\* the state of an outbound call
outVars == <<job, sends>>

\* the module-level caches, the second account, the listener's runs and the
\* text it makes of a message
normVars == <<memberCache, bulkCachedGroups, peerProcessed, runs, form>>

RevIds == 1..MaxRev
CallIds == 1..MaxCalls
\* The correlation tokens Math.random() can give: two calls get equal tokens
\* or different ones.
Tokens == {1, 2}

\* A socket a frame can be sent on: the forward socket, an accepted reverse
\* connection, or none.
Fwd == <<"fwd", 0>>
Rev(r) == <<"rev", r>>
NoSock == <<"none", 0>>

\* What a listener registered by the embedding code does when it is called
\* synchronously from emit(): nothing, or client.disconnect().
ListenerOps == {"none", "disconnect"}

\* One frame received on a socket.  kind: an ordinary event, a heartbeat
\* meta-event, a lifecycle meta-event, the reply to an action, or bytes that
\* are not JSON.  echo and status are set in replies, self_id in lifecycle
\* events (0: absent).
NoFrame == [kind |-> "none", echo |-> 0, status |-> "", self_id |-> 0]
Frames ==
    {[kind |-> k, echo |-> 0, status |-> "", self_id |-> 0] :
        k \in {"event", "heartbeat", "malformed"}}
    \cup {[kind |-> "lifecycle", echo |-> 0, status |-> "", self_id |-> i] : i \in {0, 1}}
    \cup {[kind |-> "reply", echo |-> e, status |-> st, self_id |-> 0] :
            e \in Tokens, st \in {"ok", "failed"}}

\* The reply of the HTTP endpoint to one POST (NoHttp: none received).
NoHttp == [kind |-> "none", status |-> "", retcode |-> 0]

HttpOutcomes ==
    {[kind |-> k, status |-> "", retcode |-> 0] : k \in {"neterr", "non2xx", "badjson"}}
    \cup {[kind |-> "json", status |-> st, retcode |-> rc] :
            st \in {"ok", "failed"}, rc \in {0, 1400}}

\* One call: its promise (state, result) and the closure of its reply handler
\* and timeout (sock = activeWs, echo, handler registered, timer armed), and
\* the number of frames it has sent on a socket.
NoCall ==
    [kind |-> "none", state |-> "unused", result |-> "",
     sock |-> NoSock, echo |-> 0, handler |-> FALSE, timer |-> 0, frames |-> 0]

\* The client's fields (and the history variables) as one record.
Cur ==
    [ws |-> ws, isAlive |-> isAlive, reconnectAttempts |-> reconnectAttempts,
     reconnectTimer |-> reconnectTimer, heartbeatTimer |-> heartbeatTimer,
     timeouts |-> timeouts, intervals |-> intervals, selfId |-> selfId,
     reverseWss |-> reverseWss, reverseWs |-> reverseWs, rev |-> rev,
     calls |-> calls, emitted |-> <<>>, httpReply |-> NoHttp,
     started |-> started, sinceTick |-> sinceTick,
     firedSinceOpen |-> firedSinceOpen, liveSockets |-> liveSockets,
     inMap |-> inMap, starts |-> starts, retired |-> retired]

CommitClient(s) ==
    /\ ws' = s.ws
    /\ isAlive' = s.isAlive
    /\ reconnectAttempts' = s.reconnectAttempts
    /\ reconnectTimer' = s.reconnectTimer
    /\ heartbeatTimer' = s.heartbeatTimer
    /\ timeouts' = s.timeouts
    /\ intervals' = s.intervals
    /\ selfId' = s.selfId
    /\ reverseWss' = s.reverseWss
    /\ reverseWs' = s.reverseWs
    /\ rev' = s.rev
    /\ calls' = s.calls
    /\ emitted' = s.emitted
    /\ httpReply' = s.httpReply
    /\ started' = s.started
    /\ sinceTick' = s.sinceTick
    /\ firedSinceOpen' = s.firedSinceOpen
    /\ liveSockets' = s.liveSockets
    /\ inMap' = s.inMap
    /\ starts' = s.starts
    /\ retired' = s.retired
    /\ UNCHANGED options

Commit(s) ==
    CommitClient(s) /\ UNCHANGED chanVars /\ UNCHANGED outVars /\ UNCHANGED normVars

Min(a, b) == IF a <= b THEN a ELSE b

Max(a, b) == IF a >= b THEN a ELSE b

\* ceil(a / b)
CeilDiv(a, b) == (a + b - 1) \div b

\* A handle no armed timer uses (setTimeout / setInterval return a new object).
FreshId(armed) ==
    CHOOSE i \in 1..(Cardinality(armed) + 1) : \A t \in armed : t.id # i

\* ws.removeAllListeners(): the reply handlers on the forward socket go too.
RemoveAllListeners(cs) ==
    [c \in CallIds |->
        IF cs[c].sock = Fwd THEN [cs[c] EXCEPT !.handler = FALSE] ELSE cs[c]]

\* readyState OPEN or CONNECTING: the states in which cleanup() terminates
\* the socket (line 97)
Live == {"OPEN", "CONNECTING"}

CleanupNoTerminate(s) ==
    LET s1 == IF s.reconnectTimer # 0
              THEN [s EXCEPT !.timeouts = {t \in s.timeouts : t.id # s.reconnectTimer},
                             !.reconnectTimer = 0]
              ELSE s
        s2 == IF s1.heartbeatTimer # 0
              THEN [s1 EXCEPT !.intervals = {t \in s1.intervals : t.id # s1.heartbeatTimer},
                              !.heartbeatTimer = 0, !.sinceTick = "none"]
              ELSE s1
    IN  IF s2.ws # "null"
        THEN [s2 EXCEPT !.calls = RemoveAllListeners(s2.calls), !.ws = "null"]
        ELSE s2

CleanupLeavesTimeout(s) ==
    LET s1 == [s EXCEPT !.reconnectTimer = 0]
        s2 == IF s1.heartbeatTimer # 0
              THEN [s1 EXCEPT !.intervals = {t \in s1.intervals : t.id # s1.heartbeatTimer},
                              !.heartbeatTimer = 0, !.sinceTick = "none"]
              ELSE s1
    IN  IF s2.ws # "null"
        THEN [s2 EXCEPT !.calls = RemoveAllListeners(s2.calls), !.ws = "null",
                        !.liveSockets = IF s2.ws \in Live THEN @ - 1 ELSE @]
        ELSE s2

\* cleanup(), lines 86-102
Cleanup(s) ==
    LET s1 == IF s.reconnectTimer # 0
              THEN [s EXCEPT !.timeouts = {t \in s.timeouts : t.id # s.reconnectTimer},
                             !.reconnectTimer = 0]
              ELSE s
        s2 == IF s1.heartbeatTimer # 0
              THEN [s1 EXCEPT !.intervals = {t \in s1.intervals : t.id # s1.heartbeatTimer},
                              !.heartbeatTimer = 0, !.sinceTick = "none"]
              ELSE s1
    IN  IF s2.ws # "null"
        THEN [s2 EXCEPT !.calls = RemoveAllListeners(s2.calls), !.ws = "null",
                        !.liveSockets = IF s2.ws \in Live THEN @ - 1 ELSE @]
        ELSE s2

StopReverseWsKeepsPeer(s) ==
    LET s1 == IF s.reverseWs # 0
              THEN [s EXCEPT !.rev[s.reverseWs] = IF @ = "OPEN" THEN "CLOSING" ELSE @]
              ELSE s
    IN  IF s1.reverseWss THEN [s1 EXCEPT !.reverseWss = FALSE] ELSE s1

\* stopReverseWs(), lines 352-362
StopReverseWs(s) ==
    LET s1 == IF s.reverseWs # 0
              THEN [s EXCEPT !.rev[s.reverseWs] = IF @ = "OPEN" THEN "CLOSING" ELSE @,
                             !.reverseWs = 0]
              ELSE s
    IN  IF s1.reverseWss THEN [s1 EXCEPT !.reverseWss = FALSE] ELSE s1

\* disconnect(), lines 426-429
Disconnect(s) == [StopReverseWs(Cleanup(s)) EXCEPT !.started = FALSE]

\* emit(type, payload): the event is delivered, and the listener runs inside
\* the call.
Emit(s, type, payload, l) ==
    LET s1 == [s EXCEPT !.emitted = Append(@, [type |-> type, payload |-> payload])]
    IN  IF l = "disconnect" THEN Disconnect(s1) ELSE s1

BackoffDelayNoCap(n) == BaseDelay * 2^n

\* line 128
BackoffDelay(n) == Min(BaseDelay * 2^n, maxReconnectDelay)

\* scheduleReconnect(), lines 125-135
ScheduleReconnect(s) ==
    IF s.reconnectTimer # 0 THEN s
    ELSE LET id == FreshId(s.timeouts)
         IN  [s EXCEPT !.timeouts = @ \cup {[id |-> id, delay |-> BackoffDelay(s.reconnectAttempts)]},
                       !.reconnectTimer = id]

HandleDisconnectNoSchedule(s, l) == Emit(Cleanup(s), "disconnect", NoFrame, l)

HandleDisconnectEmitsTwice(s, l) ==
    ScheduleReconnect(Emit(Emit(Cleanup(s), "disconnect", NoFrame, l),
                           "disconnect", NoFrame, l))

\* handleDisconnect(), lines 119-123
HandleDisconnect(s, l) == ScheduleReconnect(Emit(Cleanup(s), "disconnect", NoFrame, l))

\* startHeartbeat(), lines 104-117 (arming the interval)
StartHeartbeat(s) ==
    LET s1 == IF s.heartbeatTimer # 0
              THEN [s EXCEPT !.intervals = {t \in s.intervals : t.id # s.heartbeatTimer}]
              ELSE s
        id == FreshId(s1.intervals)
    IN  [s1 EXCEPT !.intervals = @ \cup {[id |-> id, period |-> HeartbeatInterval]},
                   !.heartbeatTimer = id]

\* connect(), lines 38-47 and 80-83: throws = the WebSocket constructor throws
ConnectOp(s, throws) ==
    LET s1 == Cleanup(s)
    IN  IF throws THEN ScheduleReconnect(s1)
        ELSE [s1 EXCEPT !.ws = "CONNECTING", !.liveSockets = @ + 1]

OnTickIgnoresLiveness(s, l) ==
    [HandleDisconnect(s, l) EXCEPT !.sinceTick = "timeout"]

\* the interval's callback, lines 107-116
OnTick(s, l) ==
    IF s.isAlive = FALSE THEN [HandleDisconnect(s, l) EXCEPT !.sinceTick = "timeout"]
    ELSE [s EXCEPT !.isAlive = FALSE, !.sinceTick = "none"]

\* ------------------------------------------------- forward socket actions

\* client.connect() called by the embedding code
Connect(throws) ==
    Commit([ConnectOp(Cur, throws) EXCEPT !.started = TRUE])

\* client.disconnect() called by the embedding code
DisconnectCall == Commit(Disconnect(Cur))

\* the socket's "open" event, lines 49-57
SocketOpen(l) ==
    /\ ws = "CONNECTING"
    /\ LET s1 == [Cur EXCEPT !.ws = "OPEN", !.isAlive = TRUE,
                             !.reconnectAttempts = 0, !.firedSinceOpen = 0]
           s2 == Emit(s1, "connect", NoFrame, l)
       IN  Commit([StartHeartbeat(s2) EXCEPT !.sinceTick = "open"])

\* the peer starts closing: readyState is CLOSING before "close" is emitted
SocketClosing ==
    /\ ws = "OPEN"
    /\ Commit([Cur EXCEPT !.ws = "CLOSING", !.liveSockets = @ - 1])

\* the socket's "close" event, lines 72-74: readyState is CLOSED by then
SocketClose(l) ==
    /\ ws # "null"
    /\ LET s1 == [Cur EXCEPT !.ws = "CLOSED",
                             !.liveSockets = IF ws \in Live THEN @ - 1 ELSE @]
       IN  Commit(HandleDisconnect(s1, l))

\* the socket's "error" event, lines 76-79
SocketError(l) ==
    /\ ws # "null"
    /\ Commit(HandleDisconnect(Cur, l))

\* a tick of the heartbeat interval, lines 107-116
HeartbeatTick(l) ==
    /\ intervals # {}
    /\ Commit(OnTick(Cur, l))

\* a reconnect timeout fires, lines 131-134
ReconnectTimerFire(throws) ==
    /\ reconnectAttempts < MaxAttempts
    /\ \E t \in timeouts :
        LET s1 == [Cur EXCEPT !.timeouts = @ \ {t},
                              !.reconnectAttempts = @ + 1,
                              !.firedSinceOpen = @ + 1]
        IN  Commit(ConnectOp(s1, throws))

\* ------------------------------------------------------ request correlator

\* resolve() / reject() of a promise: a settled promise stays as it is.
Settle(call, st, res) ==
    IF call.state = "pending" THEN [call EXCEPT !.state = st, !.result = res] ELSE call

ReplyHandlerAnyEcho(call, f) ==
    IF f.kind # "malformed"
    THEN LET c1 == [call EXCEPT !.handler = FALSE]
         IN  IF f.status = "ok" THEN Settle(c1, "resolved", "data")
             ELSE Settle(c1, "rejected", "server")
    ELSE call

\* the reply handler of one call, lines 390-404
ReplyHandler(call, f) ==
    IF f.kind # "malformed" /\ f.echo = call.echo
    THEN LET c1 == [call EXCEPT !.handler = FALSE]
         IN  IF f.status = "ok" THEN Settle(c1, "resolved", "data")
             ELSE Settle(c1, "rejected", "server")
    ELSE call

\* a frame on socket sock reaches every reply handler registered on it
DeliverReply(cs, sock, f) ==
    [c \in CallIds |->
        IF cs[c].handler /\ cs[c].sock = sock THEN ReplyHandler(cs[c], f) ELSE cs[c]]

GetActiveWsPreferReverse(s) ==
    IF s.reverseWs # 0 /\ s.rev[s.reverseWs] = "OPEN" THEN Rev(s.reverseWs)
    ELSE IF s.ws = "OPEN" THEN Fwd
    ELSE NoSock

\* getActiveWs(), lines 364-368
GetActiveWs(s) ==
    IF s.ws = "OPEN" THEN Fwd
    ELSE IF s.reverseWs # 0 /\ s.rev[s.reverseWs] = "OPEN" THEN Rev(s.reverseWs)
    ELSE NoSock

\* sendWs(), lines 417-424
SendWsOp(s, c) ==
    LET a == GetActiveWs(s)
    IN  IF a = NoSock
        THEN [s EXCEPT !.calls[c].state = "rejected", !.calls[c].result = "noconn"]
        ELSE [s EXCEPT !.calls[c].state = "resolved", !.calls[c].result = "sent",
                       !.calls[c].sock = a, !.calls[c].frames = @ + 1]

\* the socket path of sendAction(), lines 264-275
SendActionWs(s, c) ==
    LET a == GetActiveWs(s)
    IN  IF a = NoSock
        THEN [s EXCEPT !.calls[c].state = "rejected", !.calls[c].result = "noconn"]
        ELSE [s EXCEPT !.calls[c].state = "resolved", !.calls[c].result = "sent",
                       !.calls[c].sock = a, !.calls[c].frames = @ + 1]

\* sendWithResponseWs(), lines 381-415: e is the token Math.random() gives
SendWithResponseWs(s, c, e) ==
    LET a == GetActiveWs(s)
    IN  IF a = NoSock
        THEN [s EXCEPT !.calls[c].state = "rejected", !.calls[c].result = "noconn"]
        ELSE [s EXCEPT !.calls[c].state = "pending", !.calls[c].sock = a,
                       !.calls[c].frames = @ + 1,
                       !.calls[c].echo = e, !.calls[c].handler = TRUE,
                       !.calls[c].timer = RequestTimeoutMs]

\* sendViaHttp() throws, lines 284-295
HttpFailed(o) ==
    \/ o.kind \in {"neterr", "non2xx", "badjson"}
    \/ o.kind = "json" /\ o.status # "ok" /\ o.retcode # 0

OnRequestTimeoutKeepsHandler(call) ==
    Settle([call EXCEPT !.timer = 0], "rejected", "timeout")

\* the timeout callback of one call, lines 410-413
OnRequestTimeout(call) ==
    Settle([call EXCEPT !.handler = FALSE, !.timer = 0], "rejected", "timeout")

\* Once the handler is off the socket and the timeout has run, nothing refers
\* to the call's closure (activeWs, echo) any more: the promise alone is left.
Release(call) ==
    IF ~call.handler /\ call.timer = 0
    THEN [call EXCEPT !.sock = NoSock, !.echo = 0]
    ELSE call

OnForwardFrameEmitsAll(s, f) ==
    LET s1 == [s EXCEPT !.isAlive = TRUE, !.sinceTick = "frame"]
        s2 == Emit(s1, "message", f, "none")
    IN  [s2 EXCEPT !.calls = DeliverReply(s2.calls, Fwd, f)]

\* a frame arrives on the forward socket, lines 59-70, then the reply handlers
OnForwardFrame(s, f) ==
    LET s1 == [s EXCEPT !.isAlive = TRUE, !.sinceTick = "frame"]
        s2 == IF f.kind \in {"malformed", "heartbeat"} THEN s1
              ELSE Emit(s1, "message", f, "none")
    IN  [s2 EXCEPT !.calls = DeliverReply(s2.calls, Fwd, f)]

ForwardFrame(f) ==
    /\ ws = "OPEN"
    /\ Commit(OnForwardFrame(Cur, f))

\* ------------------------------------------------------- reverse listener

\* startReverseWs(), lines 301-306, called once per client (channel.ts:817)
StartReverseWsOp(s) ==
    IF options.reverseWsPort THEN [s EXCEPT !.reverseWss = TRUE] ELSE s

StartReverseWs ==
    /\ ~reverseWss
    /\ Commit(StartReverseWsOp(Cur))

AuthorizedAlways(authOk) == TRUE

\* the check of lines 310-317: authOk = the request's Authorization header
\* equals "Bearer <accessToken>"
Authorized(authOk) == options.accessToken => authOk

\* the listener's "connection" event for connection r, lines 308-320: a
\* connection that is not authorized is closed with code 4001 ("REJECTED")
\* and gets no handler
ReverseConnectionFrom(r, authOk) ==
    /\ rev[r] = "NONE"
    /\ \A q \in RevIds : q < r => rev[q] # "NONE"
    /\ Commit(IF ~Authorized(authOk)
              THEN [Cur EXCEPT !.rev[r] = "REJECTED"]
              ELSE [Cur EXCEPT !.rev[r] = "OPEN", !.reverseWs = r])

ReverseConnection ==
    /\ reverseWss
    /\ \E r \in RevIds, authOk \in BOOLEAN : ReverseConnectionFrom(r, authOk)

OnReverseFrameMarksAlive(s, r, f) ==
    LET s1 == IF f.kind \in {"malformed", "heartbeat"} THEN s
              ELSE Emit([s EXCEPT !.selfId =
                             IF f.kind = "lifecycle" /\ f.self_id # 0
                             THEN f.self_id ELSE @],
                        "message", f, "none")
    IN  [s1 EXCEPT !.calls = DeliverReply(s1.calls, Rev(r), f),
                   !.isAlive = TRUE, !.sinceTick = "frame"]

\* a frame arrives on an accepted reverse connection, lines 322-335, then
\* the reply handlers
OnReverseFrame(s, r, f) ==
    LET s1 == IF f.kind \in {"malformed", "heartbeat"} THEN s
              ELSE Emit([s EXCEPT !.selfId =
                             IF f.kind = "lifecycle" /\ f.self_id # 0
                             THEN f.self_id ELSE @],
                        "message", f, "none")
    IN  [s1 EXCEPT !.calls = DeliverReply(s1.calls, Rev(r), f)]

\* a frame arrives on a reverse connection: a connection that was rejected
\* has no "message" handler (the return of line 316)
ReverseFrame(r, f) ==
    /\ rev[r] \in {"OPEN", "CLOSING", "REJECTED"}
    /\ Commit(IF rev[r] = "REJECTED" THEN Cur ELSE OnReverseFrame(Cur, r, f))

ReverseCloseClearsPeer ==
    \E r \in RevIds :
        /\ rev[r] \in {"OPEN", "CLOSING"}
        /\ Commit([Cur EXCEPT !.rev[r] = "CLOSED", !.reverseWs = 0])

\* an accepted reverse connection's "close" event, lines 337-340
ReverseClose ==
    \E r \in RevIds :
        /\ rev[r] \in {"OPEN", "CLOSING"}
        /\ Commit([Cur EXCEPT !.rev[r] = "CLOSED",
                              !.reverseWs = IF @ = r THEN 0 ELSE @])

\* ------------------------------------------------------- action transport

FirstUnused(c) ==
    /\ calls[c].state = "unused"
    /\ \A d \in CallIds : d < c => calls[d].state # "unused"

\* a fire-and-forget control call (sendGroupPoke, setGroupBan, ...) -> sendWs()
SendWs(c) ==
    /\ FirstUnused(c)
    /\ Commit(SendWsOp([Cur EXCEPT !.calls[c].kind = "sendWs"], c))

SendActionOpBothTransports(s, c) ==
    LET s1 == [s EXCEPT !.calls[c].kind = "sendAction"]
    IN  IF options.httpUrl
        THEN [SendActionWs(s1, c) EXCEPT !.calls[c].state = "http",
                                         !.calls[c].result = ""]
        ELSE SendActionWs(s1, c)

\* sendAction(), lines 253-263: with an HTTP base URL the POST goes out first
SendActionOp(s, c) ==
    LET s1 == [s EXCEPT !.calls[c].kind = "sendAction"]
    IN  IF options.httpUrl
        THEN [s1 EXCEPT !.calls[c].state = "http"]
        ELSE SendActionWs(s1, c)

SendAction(c) ==
    /\ FirstUnused(c)
    /\ Commit(SendActionOp(Cur, c))

\* sendWithResponse(), lines 370-379
SendWithResponse(c) ==
    /\ FirstUnused(c)
    /\ \E e \in Tokens :
        LET s1 == [Cur EXCEPT !.calls[c].kind = "sendWithResponse"]
        IN  Commit(IF options.httpUrl
                   THEN [s1 EXCEPT !.calls[c].state = "http"]
                   ELSE SendWithResponseWs(s1, c, e))

\* fetch() settles: sendViaHttp() returns or throws, and the caller goes on
\* (lines 257-262 and 373-376)
OnHttpResponse(s, c, o, e) ==
    LET s1 == [s EXCEPT !.httpReply = o]
    IN  IF ~HttpFailed(o)
        THEN [s1 EXCEPT !.calls[c].state = "resolved", !.calls[c].result = "http"]
        ELSE IF s.calls[c].kind = "sendAction"
             THEN SendActionWs(s1, c)
             ELSE SendWithResponseWs(s1, c, e)

HttpResponse ==
    \E c \in CallIds, o \in HttpOutcomes, e \in Tokens :
        /\ calls[c].state = "http"
        /\ Commit(OnHttpResponse(Cur, c, o, e))

\* the 5 s timeout of a correlated call fires, lines 410-413
RequestTimeout ==
    \E c \in CallIds :
        /\ calls[c].timer # 0
        /\ Commit([Cur EXCEPT !.calls[c] = Release(OnRequestTimeout(@))])

\* ------------------------------------------------------- inbound messages

\* The message ids the model follows one by one; every other id is counted
\* in otherIds.
MsgIds == {1, 2}

\* a message event with message_id id, as decoded from its frame
MsgFrame(id) ==
    [kind |-> "event", echo |-> 0, status |-> "", self_id |-> 0,
     post_type |-> "message", message_id |-> id]

\* processedMsgIds.size
Size == Cardinality(processedMsgIds) + otherIds

OnMessageNoDedup(id, sock, n) ==
    /\ processedMsgIds' = processedMsgIds \cup {id}
    /\ passedSinceClear' = [passedSinceClear EXCEPT ![id] = @ + 1]
    /\ handlers' = Append(handlers,
            [id |-> id, sock |-> sock,
             pc |-> IF n = 0 THEN "delivered" ELSE "lookup", lookups |-> n])
    /\ pipeline' = IF n = 0 THEN Append(pipeline, Len(handlers) + 1) ELSE pipeline

\* the "message" listener for a message event that is not the bot's own,
\* channel.ts lines 497-537 and on to its first lookup over the network:
\* n is the number of such lookups the event needs (roster, forward bundle,
\* file URL, reply quote, history); with none the run goes straight on to
\* recordInboundSession(), line 802
OnMessage(id, sock, n) ==
    IF config.enableDeduplication /\ id \in processedMsgIds
    THEN /\ handlers' = Append(handlers,
                [id |-> id, sock |-> sock, pc |-> "dropped", lookups |-> 0])
         /\ UNCHANGED <<processedMsgIds, passedSinceClear, pipeline>>
    ELSE /\ processedMsgIds' =
                IF config.enableDeduplication THEN processedMsgIds \cup {id}
                ELSE processedMsgIds
         /\ passedSinceClear' = [passedSinceClear EXCEPT ![id] = @ + 1]
         /\ handlers' = Append(handlers,
                [id |-> id, sock |-> sock,
                 pc |-> IF n = 0 THEN "delivered" ELSE "lookup", lookups |-> n])
         /\ pipeline' = IF n = 0 THEN Append(pipeline, Len(handlers) + 1) ELSE pipeline

\* a message event arrives on the forward socket
ForwardMessage(id, n) ==
    /\ ws = "OPEN"
    /\ Len(handlers) < MaxEvents
    /\ CommitClient(OnForwardFrame(Cur, MsgFrame(id)))
    /\ OnMessage(id, Fwd, n)
    /\ UNCHANGED <<config, otherIds>>
    /\ UNCHANGED outVars
    /\ UNCHANGED normVars

\* a message event arrives on an accepted reverse connection
ReverseMessage(r, id, n) ==
    /\ rev[r] \in {"OPEN", "CLOSING"}
    /\ Len(handlers) < MaxEvents
    /\ CommitClient(OnReverseFrame(Cur, r, MsgFrame(id)))
    /\ OnMessage(id, Rev(r), n)
    /\ UNCHANGED <<config, otherIds>>
    /\ UNCHANGED outVars
    /\ UNCHANGED normVars

\* a message event with an id outside MsgIds that processedMsgIds does not
\* hold arrives on the forward socket, lines 533-537
OtherMessage ==
    /\ ws = "OPEN"
    /\ otherIds < MaxOther
    /\ CommitClient(OnForwardFrame(Cur, MsgFrame(0)))
    /\ otherIds' = IF config.enableDeduplication THEN otherIds + 1 ELSE otherIds
    /\ UNCHANGED <<config, processedMsgIds, passedSinceClear, handlers, pipeline>>
    /\ UNCHANGED outVars
    /\ UNCHANGED normVars

\* a tick of cleanupInterval, channel.ts lines 481-483
Sweep ==
    /\ inMap
    /\ IF Size > SweepThreshold
       THEN /\ processedMsgIds' = {} /\ otherIds' = 0
            /\ passedSinceClear' = [i \in MsgIds |-> 0]
       ELSE UNCHANGED <<processedMsgIds, otherIds, passedSinceClear>>
    /\ CommitClient(Cur)
    /\ UNCHANGED <<config, handlers, pipeline>>
    /\ UNCHANGED outVars
    /\ UNCHANGED normVars

\* a lookup of run e comes back (or fails, or times out): the run goes on,
\* and after its last lookup reaches recordInboundSession(), line 802
LookupDone(e) ==
    /\ e \in 1..Len(handlers)
    /\ handlers[e].pc = "lookup"
    /\ handlers' = [handlers EXCEPT
            ![e].lookups = @ - 1,
            ![e].pc = IF handlers[e].lookups = 1 THEN "delivered" ELSE "lookup"]
    /\ pipeline' = IF handlers[e].lookups = 1 THEN Append(pipeline, e) ELSE pipeline
    /\ CommitClient(Cur)
    /\ UNCHANGED <<config, processedMsgIds, otherIds, passedSinceClear>>
    /\ UNCHANGED outVars
    /\ UNCHANGED normVars

\* ------------------------------------------------------- outbound helpers

\* A JavaScript string is modelled as the sequence of its characters.
Digits == {"0", "1", "2", "3", "4", "5", "6", "7", "8", "9"}

DigitVal(ch) ==
    CASE ch = "0" -> 0 [] ch = "1" -> 1 [] ch = "2" -> 2 [] ch = "3" -> 3
      [] ch = "4" -> 4 [] ch = "5" -> 5 [] ch = "6" -> 6 [] ch = "7" -> 7
      [] ch = "8" -> 8 [] ch = "9" -> 9

DigitChar(d) ==
    CASE d = 0 -> "0" [] d = 1 -> "1" [] d = 2 -> "2" [] d = 3 -> "3"
      [] d = 4 -> "4" [] d = 5 -> "5" [] d = 6 -> "6" [] d = 7 -> "7"
      [] d = 8 -> "8" [] d = 9 -> "9"

\* String(n) for a number n >= 0
RECURSIVE String(_)
String(n) ==
    IF n < 10 THEN <<DigitChar(n)>>
    ELSE String(n \div 10) \o <<DigitChar(n % 10)>>

\* s.slice(from) and s.slice(0, to), for 0 <= from and 0 <= to
SliceFrom(s, from) == SubSeq(s, from + 1, Len(s))
SliceTo(s, to) == SubSeq(s, 1, Min(to, Len(s)))

StartsWith(s, prefix) ==
    Len(s) >= Len(prefix) /\ SubSeq(s, 1, Len(prefix)) = prefix

RECURSIVE TrimStart(_)
TrimStart(s) == IF s # <<>> /\ Head(s) = " " THEN TrimStart(Tail(s)) ELSE s

RECURSIVE TrimEnd(_)
TrimEnd(s) ==
    IF s # <<>> /\ s[Len(s)] = " " THEN TrimEnd(SubSeq(s, 1, Len(s) - 1)) ELSE s

\* s.trim()
Trim(s) == TrimEnd(TrimStart(s))

\* s.split(":")
RECURSIVE SplitColon(_)
SplitColon(s) ==
    IF \E i \in 1..Len(s) : s[i] = ":"
    THEN LET i == CHOOSE k \in 1..Len(s) :
                    s[k] = ":" /\ \A m \in 1..(k - 1) : s[m] # ":"
         IN  <<SubSeq(s, 1, i - 1)>> \o SplitColon(SliceFrom(s, i))
    ELSE <<s>>

\* the number of leading decimal digits of s
RECURSIVE LeadingDigits(_)
LeadingDigits(s) ==
    IF s # <<>> /\ Head(s) \in Digits THEN 1 + LeadingDigits(Tail(s)) ELSE 0

\* the value of a string of decimal digits
RECURSIVE DigitsValue(_)
DigitsValue(s) ==
    IF s = <<>> THEN 0
    ELSE 10 * DigitsValue(SubSeq(s, 1, Len(s) - 1)) + DigitVal(s[Len(s)])

ParseIntNeverNaN(s) ==
    LET n == LeadingDigits(s)
    IN  [nan |-> FALSE, value |-> DigitsValue(SubSeq(s, 1, n))]

\* parseInt(s, 10): leading white space is skipped, a sign is taken, and the
\* longest run of digits that follows is the number; what comes after the
\* digits is ignored, and with no digit the result is NaN
ParseInt(s) ==
    LET t == TrimStart(s)
        signed == t # <<>> /\ Head(t) \in {"+", "-"}
        u == IF signed THEN Tail(t) ELSE t
        n == LeadingDigits(u)
        v == DigitsValue(SubSeq(u, 1, n))
    IN  IF n = 0 THEN [nan |-> TRUE, value |-> 0]
        ELSE [nan |-> FALSE,
              value |-> IF signed /\ Head(t) = "-" THEN 0 - v ELSE v]

GroupPrefix == <<"g", "r", "o", "u", "p", ":">>
GuildPrefix == <<"g", "u", "i", "l", "d", ":">>
PrivatePrefix == <<"p", "r", "i", "v", "a", "t", "e", ":">>

\* raw.replace(/^(qq:)/i, ""), channel.ts lines 136-138
NormalizeTarget(raw) ==
    IF Len(raw) >= 3 /\ raw[1] \in {"q", "Q"} /\ raw[2] \in {"q", "Q"} /\ raw[3] = ":"
    THEN SliceFrom(raw, 3)
    ELSE raw

\* parseTarget() throws: which of its four errors
TargetError(which) == [type |-> "error", error |-> which]

\* parseTarget(), channel.ts lines 158-184
ParseTarget(to) ==
    IF StartsWith(to, GroupPrefix)
    THEN LET id == ParseInt(SliceFrom(to, 6))
         IN  IF id.nan THEN TargetError("group")
             ELSE [type |-> "group", groupId |-> id.value]
    ELSE IF StartsWith(to, GuildPrefix)
    THEN LET parts == SplitColon(to)
         IN  IF Len(parts) < 3 \/ parts[2] = <<>> \/ parts[3] = <<>>
             THEN TargetError("guild")
             ELSE [type |-> "guild", guildId |-> parts[2], channelId |-> parts[3]]
    ELSE IF StartsWith(to, PrivatePrefix)
    THEN LET id == ParseInt(SliceFrom(to, 8))
         IN  IF id.nan THEN TargetError("private")
             ELSE [type |-> "private", userId |-> id.value]
    ELSE LET id == ParseInt(to)
         IN  IF id.nan THEN TargetError("unknown")
             ELSE [type |-> "private", userId |-> id.value]

\* parseTarget() of the other copy of the channel file, part_000 lines
\* 128-154: the prefix is stripped and the string trimmed first, and a guild
\* target needs three parts only
ParseTargetPart000(to) ==
    LET cleanTo == Trim(NormalizeTarget(to))
    IN  IF StartsWith(cleanTo, GroupPrefix)
        THEN LET id == ParseInt(SliceFrom(cleanTo, 6))
             IN  IF id.nan THEN TargetError("group")
                 ELSE [type |-> "group", groupId |-> id.value]
        ELSE IF StartsWith(cleanTo, GuildPrefix)
        THEN LET parts == SplitColon(cleanTo)
             IN  IF Len(parts) < 3 THEN TargetError("guild")
                 ELSE [type |-> "guild", guildId |-> parts[2], channelId |-> parts[3]]
        ELSE IF StartsWith(cleanTo, PrivatePrefix)
        THEN LET id == ParseInt(SliceFrom(cleanTo, 8))
             IN  IF id.nan THEN TargetError("private")
                 ELSE [type |-> "private", userId |-> id.value]
        ELSE LET id == ParseInt(cleanTo)
             IN  IF id.nan THEN TargetError("unknown")
                 ELSE [type |-> "private", userId |-> id.value]

RECURSIVE SplitLoopDropsRest(_, _)
SplitLoopDropsRest(current, limit) ==
    IF Len(current) > limit
    THEN <<SliceTo(current, limit)>>
            \o SplitLoopDropsRest(SliceFrom(current, limit), limit)
    ELSE <<>>

\* the loop of splitMessage(), channel.ts lines 218-221
RECURSIVE SplitLoop(_, _)
SplitLoop(current, limit) ==
    IF Len(current) > 0
    THEN <<SliceTo(current, limit)>> \o SplitLoop(SliceFrom(current, limit), limit)
    ELSE <<>>

\* splitMessage(), channel.ts lines 214-223, for a limit >= 1
SplitMessage(text, limit) ==
    IF Len(text) <= limit THEN <<text>> ELSE SplitLoop(text, limit)

\* config.maxMessageLength || 4000, channel.ts line 708
DeliverLimit == IF config.maxMessageLength # 0 THEN config.maxMessageLength ELSE 4000

\* String.prototype.slice(from, to) as splitMessage() uses it, for any
\* integers: a negative index counts from the end, and every index is
\* clamped to the string
SliceIndex(n, len) == IF n < 0 THEN (IF len + n < 0 THEN 0 ELSE len + n) ELSE Min(n, len)

Slice(s, from, to) ==
    SubSeq(s, SliceIndex(from, Len(s)) + 1, SliceIndex(to, Len(s)))

\* splitMessage() statement by statement, channel.ts lines 214-223, as the
\* reply deliver path calls it (line 708).  pc: "idle" (not called), "loop"
\* (at the while test), "returned"; current and chunks are its locals.
ChunkJob(text) ==
    [op |-> "splitMessage", pc |-> "idle", text |-> text, limit |-> 0,
     current |-> <<>>, chunks |-> <<>>]

\* lines 215-217
SplitEnter ==
    /\ job.pc = "idle"
    /\ job' = IF Len(job.text) <= DeliverLimit
              THEN [job EXCEPT !.limit = DeliverLimit, !.pc = "returned",
                               !.chunks = <<job.text>>]
              ELSE [job EXCEPT !.limit = DeliverLimit, !.pc = "loop",
                               !.current = job.text]
    /\ CommitClient(Cur)
    /\ UNCHANGED chanVars
    /\ UNCHANGED sends
    /\ UNCHANGED normVars

\* one iteration of the loop, lines 218-221
SplitIterate ==
    /\ job.pc = "loop"
    /\ Len(job.current) > 0
    /\ Len(job.chunks) < MaxChunks
    /\ job' = [job EXCEPT !.chunks = Append(@, Slice(job.current, 0, job.limit)),
                          !.current = Slice(@, job.limit, Len(@))]
    /\ CommitClient(Cur)
    /\ UNCHANGED chanVars
    /\ UNCHANGED sends
    /\ UNCHANGED normVars

\* the while test fails, line 222
SplitReturn ==
    /\ job.pc = "loop"
    /\ Len(job.current) = 0
    /\ job' = [job EXCEPT !.pc = "returned"]
    /\ CommitClient(Cur)
    /\ UNCHANGED chanVars
    /\ UNCHANGED sends
    /\ UNCHANGED normVars

\* The outbound call under way.  op: which function; pc: "idle" (not called
\* yet), "dispatch" (at await dispatchMessage), "resolve" (at await
\* resolveMediaUrl), "sleep" (at await sleep), "returned"; to, text, replyTo,
\* limit: its arguments (replyTo 0: none); target, chunks, i, awaiting: its
\* locals (i counts the chunks from 1); sent: what it returned.
NoTarget == [type |-> "none"]

IdleJob ==
    [op |-> "none", pc |-> "idle", to |-> <<>>, text |-> <<>>, replyTo |-> 0,
     limit |-> 0, target |-> NoTarget, chunks |-> <<>>, i |-> 0,
     awaiting |-> 0, sent |-> "none"]

InitOutbound ==
    /\ job = IdleJob
    /\ sends = <<>>

\* splitMessage(text, limit) is called
SplitMessageCall ==
    /\ job.pc = "idle"
    /\ job' = [job EXCEPT !.op = "splitMessage", !.pc = "returned",
                          !.chunks = SplitMessage(job.text, job.limit)]
    /\ CommitClient(Cur)
    /\ UNCHANGED chanVars
    /\ UNCHANGED sends
    /\ UNCHANGED normVars

\* parseTarget(to) is called, in the one copy of the channel file or the other
ParseTargetCall ==
    /\ job.pc = "idle"
    /\ job' = [job EXCEPT !.op = "parseTarget", !.pc = "returned",
                          !.target = ParseTarget(job.to)]
    /\ CommitClient(Cur)
    /\ UNCHANGED chanVars
    /\ UNCHANGED sends
    /\ UNCHANGED normVars

ParseTargetPart000Call ==
    /\ job.pc = "idle"
    /\ job' = [job EXCEPT !.op = "parseTargetPart000", !.pc = "returned",
                          !.target = ParseTargetPart000(job.to)]
    /\ CommitClient(Cur)
    /\ UNCHANGED chanVars
    /\ UNCHANGED sends
    /\ UNCHANGED normVars

\* ---------------------------------------------------------- outbound calls

\* the outbound call together with the client it works on
CurOut == [client |-> Cur, job |-> job, sends |-> sends]

CommitOut(o) ==
    /\ CommitClient(o.client)
    /\ job' = o.job
    /\ sends' = o.sends
    /\ UNCHANGED chanVars
    /\ UNCHANGED normVars

FreeCalls(cs) == {c \in CallIds : cs[c].state = "unused"}

FirstFree(cs) == CHOOSE c \in FreeCalls(cs) : \A d \in FreeCalls(cs) : c <= d

\* A message handed to the client: a plain string (kind "string": chunk
\* chunks[chunk], after an at-mention when at is set) or an array of
\* segments (kind "array").
PlainMessage(i, at) == [kind |-> "string", chunk |-> i, at |-> at, segments |-> <<>>]

ReplySegment(replyTo) == [type |-> "reply", id |-> String(replyTo), chunk |-> 0]

TextSegment(i) == [type |-> "text", id |-> <<>>, chunk |-> i]

MediaSegment == [type |-> "media", id |-> <<>>, chunk |-> 0]

ArrayMessage(segments) == [kind |-> "array", chunk |-> 0, at |-> FALSE, segments |-> segments]

\* return of the outbound call: { sent: true } or { sent: false, error }
Return(o, sent) == [o EXCEPT !.job.pc = "returned", !.job.awaiting = 0, !.job.sent = sent]

\* client.sendGroupMsg() / sendGuildChannelMsg() / sendPrivateMsg() is
\* called, part_004 lines 137-143 and 185-187: sendAction() runs up to its
\* first await
StartSend(o, message) ==
    LET c == FirstFree(o.client.calls)
    IN  [o EXCEPT !.client = SendActionOp(@, c),
                  !.sends = Append(@, [call |-> c, type |-> o.job.target.type,
                                       chunk |-> o.job.i, message |-> message])]

\* what follows await dispatchMessage(): channel.ts line 850 in sendText,
\* line 877 in sendMedia
AfterDispatch(o) ==
    IF o.job.op = "sendText" /\ Len(o.job.chunks) > 1
    THEN [o EXCEPT !.job.pc = "sleep", !.job.awaiting = 0]
    ELSE Return(o, "sent")

\* await dispatchMessage(client, target, message), channel.ts lines 187-199:
\* the group and the private call are awaited, the guild call is not
DispatchMessage(o, message) ==
    LET c == FirstFree(o.client.calls)
        o1 == StartSend(o, message)
        st == o1.client.calls[c].state
    IN  IF o.job.target.type = "guild" THEN AfterDispatch(o1)
        ELSE IF st = "http" THEN [o1 EXCEPT !.job.pc = "dispatch", !.job.awaiting = c]
        ELSE IF st = "resolved" THEN AfterDispatch(o1)
        ELSE Return(o1, "failed")

SendTextMessageReplyAll(replyTo, i) ==
    IF replyTo # 0
    THEN ArrayMessage(<<ReplySegment(replyTo), TextSegment(i)>>)
    ELSE PlainMessage(i, FALSE)

\* the message of chunk i in sendText, channel.ts lines 844-845
SendTextMessage(replyTo, i) ==
    IF replyTo # 0 /\ i = 1
    THEN ArrayMessage(<<ReplySegment(replyTo), TextSegment(i)>>)
    ELSE PlainMessage(i, FALSE)

\* one turn of the loop of sendText up to its await, lines 844-848
SendTextChunk(o) == DispatchMessage(o, SendTextMessage(o.job.replyTo, o.job.i))

Heartbeat == <<"h", "e", "a", "r", "t", "b", "e", "a", "t">>

\* outbound.sendText() up to its first await, channel.ts lines 829-848
SendTextOp(o, to, text, replyTo) ==
    LET o0 == [o EXCEPT !.job.op = "sendText", !.job.to = to,
                        !.job.text = text, !.job.replyTo = replyTo]
        target == ParseTarget(to)
    IN  IF to = <<>> \/ to = Heartbeat THEN Return(o0, "sent")
        ELSE IF ~o.client.inMap THEN Return(o0, "failed")
        ELSE IF target.type = "error"
        THEN Return([o0 EXCEPT !.job.target = target], "failed")
        ELSE SendTextChunk([o0 EXCEPT !.job.target = target,
                                      !.job.chunks = SplitMessage(text, SendTextLimit),
                                      !.job.i = 1])

\* the message of sendMedia, channel.ts lines 870-874
MediaMessage(replyTo, hasText) ==
    ArrayMessage((IF replyTo # 0 THEN <<ReplySegment(replyTo)>> ELSE <<>>)
                 \o (IF hasText THEN <<TextSegment(1)>> ELSE <<>>)
                 \o <<MediaSegment>>)

\* outbound.sendMedia() up to await resolveMediaUrl(), channel.ts lines 859-868
SendMediaOp(o, to, text, replyTo) ==
    LET o0 == [o EXCEPT !.job.op = "sendMedia", !.job.to = to,
                        !.job.text = text, !.job.replyTo = replyTo]
        target == ParseTarget(to)
    IN  IF to = <<>> \/ to = Heartbeat THEN Return(o0, "sent")
        ELSE IF ~o.client.inMap THEN Return(o0, "failed")
        ELSE IF target.type = "error"
        THEN Return([o0 EXCEPT !.job.target = target], "failed")
        ELSE [o0 EXCEPT !.job.target = target, !.job.chunks = <<text>>,
                        !.job.i = 1, !.job.pc = "resolve"]

\* the message of chunk i in the reply deliver path, channel.ts lines 710-711
DeliverMessage(isGroup, i) == PlainMessage(i, isGroup /\ i = 1)

\* the at-mention the reply deliver path puts before the first chunk of a
\* group reply, channel.ts line 711: `[CQ:at,qq=${userId}] `
AtMention(userId) ==
    <<"[", "C", "Q", ":", "a", "t", ",", "q", "q", "=">> \o String(userId) \o <<"]", " ">>

\* the text of a plain message handed to the client by the call under way
SentText(send) ==
    IF send.message.at
    THEN AtMention(job.target.userId) \o job.chunks[send.chunk]
    ELSE job.chunks[send.chunk]

\* the loop of the reply deliver path from chunk o.job.i on, up to its next
\* await: channel.ts lines 709-734 (enableTTS off); no send call is awaited
RECURSIVE DeliverLoop(_)
DeliverLoop(o) ==
    LET o1 == StartSend(o, DeliverMessage(o.job.target.type = "group", o.job.i))
    IN  IF Len(o.job.chunks) > 1 /\ config.rateLimitMs > 0
        THEN [o1 EXCEPT !.job.pc = "sleep"]
        ELSE IF o.job.i >= Len(o.job.chunks) THEN Return(o1, "sent")
        ELSE DeliverLoop([o1 EXCEPT !.job.i = @ + 1])

\* where the reply to an inbound event goes: isGroup / isGuild and the ids of
\* the event
EventTarget(type) ==
    IF type = "group" THEN [type |-> "group", groupId |-> 1, userId |-> 5]
    ELSE IF type = "guild"
    THEN [type |-> "guild", guildId |-> <<"9">>, channelId |-> <<"4">>, userId |-> 5]
    ELSE [type |-> "private", userId |-> 5]

\* send(msg) of the reply deliver path, channel.ts lines 694-735
DeliverOp(o, type, text) ==
    DeliverLoop([o EXCEPT !.job.op = "deliver", !.job.text = text,
                          !.job.target = EventTarget(type),
                          !.job.chunks = SplitMessage(text, DeliverLimit),
                          !.job.i = 1])

\* await sleep() is over: the loop goes on with the next chunk or ends,
\* channel.ts lines 843 and 850, 709 and 733
AfterSleep(o) ==
    IF o.job.i >= Len(o.job.chunks) THEN Return(o, "sent")
    ELSE IF o.job.op = "sendText" THEN SendTextChunk([o EXCEPT !.job.i = @ + 1])
    ELSE DeliverLoop([o EXCEPT !.job.i = @ + 1])

\* the call the outbound call awaits has settled: await dispatchMessage()
\* returns or throws, channel.ts lines 848 and 854-857
Resume(o, c) ==
    IF o.job.pc = "dispatch" /\ o.job.awaiting = c
    THEN IF o.client.calls[c].state = "resolved" THEN AfterDispatch(o)
         ELSE Return(o, "failed")
    ELSE o

TextOf(n) == [i \in 1..n |-> IF i % 7 < 3 THEN "a" ELSE "b"]

\* The arguments of the outbound calls: destinations of each kind, one with
\* the external prefix and one that does not parse; texts of one chunk up
\* to MaxCalls chunks; a reply-target id or none.
OutTargets ==
    {GroupPrefix \o <<"1">>, GuildPrefix \o <<"9", ":", "4">>,
     PrivatePrefix \o <<"5">>, <<"5">>, <<"q", "q", ":">> \o GroupPrefix \o <<"1">>,
     GroupPrefix \o <<"a">>}

OutTexts == {TextOf(SendTextLimit * k + 1) : k \in 0..(MaxCalls - 1)}

DeliverTexts == {TextOf(1), TextOf(3), TextOf(4001)}

ReplyIds == {0, 7}

SendTextCall ==
    \E to \in OutTargets, text \in OutTexts, replyTo \in ReplyIds :
        /\ job.pc = "idle"
        /\ CeilDiv(Len(text), SendTextLimit) <= Cardinality(FreeCalls(calls))
        /\ CommitOut(SendTextOp(CurOut, to, text, replyTo))

SendMediaCall ==
    \E to \in OutTargets, text \in {<<>>, TextOf(1)}, replyTo \in ReplyIds :
        /\ job.pc = "idle"
        /\ FreeCalls(calls) # {}
        /\ CommitOut(SendMediaOp(CurOut, to, text, replyTo))

\* await resolveMediaUrl() is over, channel.ts lines 868-876
MediaResolved ==
    /\ job.pc = "resolve"
    /\ CommitOut(DispatchMessage(CurOut, MediaMessage(job.replyTo, job.text # <<>>)))

DeliverCall ==
    \E type \in {"group", "guild", "private"}, text \in DeliverTexts :
        /\ job.pc = "idle"
        /\ inMap
        /\ CeilDiv(Len(text), DeliverLimit) <= Cardinality(FreeCalls(calls))
        /\ CommitOut(DeliverOp(CurOut, type, text))

SleepDone ==
    /\ job.pc = "sleep"
    /\ CommitOut(AfterSleep(CurOut))

\* fetch() of a transport call settles: sendAction() goes on (part_004 lines
\* 257-275), and with it the outbound call that awaits it
SendHttpResponse ==
    \E c \in CallIds, o \in HttpOutcomes :
        /\ calls[c].state = "http"
        /\ CommitOut(Resume([CurOut EXCEPT !.client = OnHttpResponse(@, c, o, 1)], c))

\* ------------------------------------------------------- message listener

\* The bot's own id, a group both accounts are members of, and a member of
\* it.  Every event comes from one user, the one admin when admins are
\* configured.
SelfId == 9
Group == 1
Member == 7

\* An event as the listener reads it: a message or a poke notice at the
\* bot; its segments: an at-mention of user `at` (0: none), a forward
\* bundle, a file without URL, a reply to a message of the bot or of another
\* user; command: the text is "/kick 7".
Event(type, mt, at, forward, file, reply, command) ==
    [type |-> type, message_type |-> mt, message_id |-> 0, at |-> at,
     forward |-> forward, file |-> file, reply |-> reply, command |-> command]

GroupAt == Event("message", "group", Member, FALSE, FALSE, "none", FALSE)
GroupAtBot == Event("message", "group", SelfId, FALSE, FALSE, "none", FALSE)
GroupRich == Event("message", "group", 0, TRUE, TRUE, "bot", FALSE)
PrivateReply == Event("message", "private", 0, FALSE, FALSE, "other", FALSE)
GroupPoke == Event("poke", "group", 0, FALSE, FALSE, "none", FALSE)
GroupKick == Event("message", "group", 0, FALSE, FALSE, "none", TRUE)

\* events whose handling makes control calls, events whose handling makes
\* lookups, and the events of the second account
ControlEvents == {GroupAt, PrivateReply, GroupPoke, GroupKick}
LookupEvents == {GroupAt, GroupAtBot, GroupRich, PrivateReply}
PeerEvents == {GroupAt}

EventFrame(ev) ==
    [MsgFrame(ev.message_id) EXCEPT
        !.post_type = IF ev.type = "poke" THEN "notice" ELSE "message"]

NewRun(acct, ev) ==
    [acct |-> acct, ev |-> ev, pc |-> "start", why |-> "",
     mention |-> "none", nameFrom |-> "none", markerFrom |-> "none",
     forwardLines |-> FALSE, fileUrl |-> FALSE, quote |-> "none",
     history |-> FALSE, fetched |-> FALSE, failed |-> {}, rejections |-> 0]

\* where a run has ended
Terminal == {"delivered", "dropped", "aborted", "command"}

\* sendWs() throws, part_004 lines 417-424: the client has no open socket.
\* The second account's client is taken to have one.
NoSocket(acct) == acct = "A" /\ GetActiveWs(Cur) = NoSock

\* a run together with the module-level caches and the processedMsgIds of
\* its account
Ctx(run) ==
    [run |-> run, memberCache |-> memberCache,
     bulkCachedGroups |-> bulkCachedGroups,
     processed |-> IF run.acct = "A" THEN processedMsgIds ELSE peerProcessed]

Stop(x, pc, why) == [x EXCEPT !.run.pc = pc, !.run.why = why]

\* a control call whose method is declared async (markGroupMsgAsRead,
\* markPrivateMsgAsRead, setMsgEmojiLike, part_004 lines 211-221) and is not
\* awaited: the throw of sendWs() rejects the promise it returns, which the
\* try/catch around the call (channel.ts 551-554, 678) does not see
AsyncControlCall(x) ==
    [x EXCEPT !.run.rejections = IF NoSocket(x.run.acct) THEN @ + 1 ELSE @]

\* lines 658-689: the trigger and mention filter, the static reaction, and
\* on to recordInboundSession()
Finish(x) ==
    LET ev == x.run.ev
        isGroup == ev.message_type = "group"
        isTriggered == ~isGroup \/ ev.type = "poke"
        mentioned == \/ ev.at = SelfId
                     \/ ev.reply = "bot" /\ x.run.quote = "ok"
    IN  IF isGroup /\ config.requireMention /\ ~isTriggered /\ ~mentioned
        THEN Stop(x, "dropped", "mention")
        ELSE LET x1 == IF config.reactionEmoji /\ ev.message_id # 0
                       THEN AsyncControlCall(x) ELSE x
             IN  [x1 EXCEPT !.run.pc = "delivered"]

HistoryAbortsOnEmptyQuote(x) ==
    IF x.run.quote = "empty" THEN Stop(x, "aborted", "lookup")
    ELSE IF x.run.ev.message_type = "group" /\ config.historyLimit # 0
    THEN [x EXCEPT !.run.pc = "history"]
    ELSE Finish(x)

\* lines 647-656: the group history
History(x) ==
    IF x.run.ev.message_type = "group" /\ config.historyLimit # 0
    THEN [x EXCEPT !.run.pc = "history"]
    ELSE Finish(x)

\* lines 602-645: the user and admin filters (every event is from the one user),
\* the admin commands, whose setGroupKick() is a plain call of sendWs()
\* outside any try/catch but the listener's own (line 811), and the reply
\* quote
AfterSegments(x) ==
    LET ev == x.run.ev
        isAdmin == config.admins
    IN  IF isAdmin /\ ev.command /\ ev.message_type = "group"
        THEN IF NoSocket(x.run.acct) THEN Stop(x, "aborted", "throw")
             ELSE Stop(x, "command", "command")
        ELSE IF ev.reply # "none" THEN [x EXCEPT !.run.pc = "quote"]
        ELSE History(x)

\* lines 589-597: a file segment without URL in a group
AfterForward(x) ==
    IF x.run.ev.file /\ x.run.ev.message_type = "group"
    THEN [x EXCEPT !.run.pc = "fileurl"]
    ELSE AfterSegments(x)

\* memberCache.get(`${groupId}:${userId}`): the entry of the key, if any
CacheEntry(cache, g, u) == {m \in cache : m.group = g /\ m.user = u}

CachedMemberIgnoresAge(cache, g, u) == CacheEntry(cache, g, u)

\* getCachedMemberName(), lines 26-33: the entry counts while it is less
\* than an hour old (fresh)
CachedMember(cache, g, u) == {m \in CacheEntry(cache, g, u) : m.fresh}

\* lines 564-588: the segments in order; an at-mention is rendered with the
\* cached name, or else with the raw id
Render(x) ==
    LET ev == x.run.ev
        hit == IF ev.message_type = "group"
               THEN CachedMember(x.memberCache, Group, ev.at) ELSE {}
        x1 == IF ev.at = 0 THEN x
              ELSE IF hit # {}
              THEN [x EXCEPT !.run.mention = "name",
                             !.run.nameFrom = (CHOOSE m \in hit : TRUE).by]
              ELSE [x EXCEPT !.run.mention = "rawid"]
    IN  IF ev.forward THEN [x1 EXCEPT !.run.pc = "forward"]
        ELSE AfterForward(x1)

\* populateGroupMemberCache() up to its await, lines 39-43
PopulateGroupMemberCache(x) ==
    LET marker == {b \in x.bulkCachedGroups : b.group = Group}
    IN  IF marker # {}
        THEN Render([x EXCEPT !.run.markerFrom = (CHOOSE b \in marker : TRUE).by])
        ELSE [x EXCEPT !.run.pc = "roster", !.run.fetched = TRUE]

\* lines 511-560: the poke-back, a plain call of sendWs() outside any
\* try/catch but the listener's own; the deduplication; the auto-mark-read;
\* the roster of a group
Start(x) ==
    LET ev == x.run.ev
    IN  IF ev.type = "poke" /\ NoSocket(x.run.acct)
        THEN Stop(x, "aborted", "throw")
        ELSE IF config.enableDeduplication /\ ev.message_id # 0
                /\ ev.message_id \in x.processed
        THEN Stop(x, "dropped", "duplicate")
        ELSE LET x1 == [x EXCEPT !.processed =
                            IF config.enableDeduplication /\ ev.message_id # 0
                            THEN @ \cup {ev.message_id} ELSE @]
                 x2 == IF config.autoMarkRead THEN AsyncControlCall(x1) ELSE x1
             IN  IF ev.message_type = "group"
                 THEN PopulateGroupMemberCache(x2)
                 ELSE Render(x2)

\* populateGroupMemberCache() after its await, lines 43-53: the roster of
\* Group is Member
RosterDone(x, ok) ==
    IF ok
    THEN [x EXCEPT
            !.memberCache =
                (@ \ CacheEntry(@, Group, Member))
                \cup {[group |-> Group, user |-> Member, by |-> x.run.acct,
                       fresh |-> TRUE]},
            !.bulkCachedGroups =
                IF \E b \in @ : b.group = Group THEN @
                ELSE @ \cup {[group |-> Group, by |-> x.run.acct]}]
    ELSE x

\* the lookup a run awaits comes back with a result (ok) or throws (an error
\* reply, a timeout, no transport): each await sits in its own try/catch,
\* lines 42-53, 580-588, 591-594, 644 and 649-655
OnLookup(x, ok) ==
    LET pc == x.run.pc
        x1 == [x EXCEPT !.run.failed = IF ok THEN @ ELSE @ \cup {pc}]
    IN  CASE pc = "roster" -> Render(RosterDone(x1, ok))
          [] pc = "forward" -> AfterForward([x1 EXCEPT !.run.forwardLines = ok])
          [] pc = "fileurl" -> AfterSegments([x1 EXCEPT !.run.fileUrl = ok])
          [] pc = "quote" ->
                History([x1 EXCEPT !.run.quote = IF ok THEN "ok" ELSE "empty"])
          [] pc = "history" -> Finish([x1 EXCEPT !.run.history = ok])

CommitRun(x, k) ==
    /\ runs' = IF k > Len(runs) THEN Append(runs, x.run)
               ELSE [runs EXCEPT ![k] = x.run]
    /\ memberCache' = x.memberCache
    /\ bulkCachedGroups' = x.bulkCachedGroups
    /\ IF x.run.acct = "A"
       THEN processedMsgIds' = x.processed /\ UNCHANGED peerProcessed
       ELSE peerProcessed' = x.processed /\ UNCHANGED processedMsgIds
    /\ UNCHANGED <<config, otherIds, passedSinceClear, handlers, pipeline>>
    /\ UNCHANGED outVars
    /\ UNCHANGED form

\* an event of the account arrives on the forward socket
EventOnForward(ev) ==
    /\ ws = "OPEN"
    /\ CommitClient(OnForwardFrame(Cur, EventFrame(ev)))
    /\ CommitRun(Start(Ctx(NewRun("A", ev))), Len(runs) + 1)

\* an event of the account arrives on an accepted reverse connection
EventOnReverse(r, ev) ==
    /\ rev[r] \in {"OPEN", "CLOSING"}
    /\ CommitClient(OnReverseFrame(Cur, r, EventFrame(ev)))
    /\ CommitRun(Start(Ctx(NewRun("A", ev))), Len(runs) + 1)

\* an event of the second account arrives at its listener
PeerEvent(ev) ==
    /\ CommitClient(Cur)
    /\ CommitRun(Start(Ctx(NewRun("B", ev))), Len(runs) + 1)

\* a lookup of run k settles
RunLookupDone(k, ok) ==
    /\ k \in 1..Len(runs)
    /\ runs[k].pc \notin Terminal
    /\ CommitClient(Cur)
    /\ CommitRun(OnLookup(Ctx(runs[k]), ok), k)

\* an hour passes (3 600 000 ms of Date.now(), line 29): every entry the
\* cache holds is an hour old or older from now on
HourPasses ==
    /\ memberCache' = {[m EXCEPT !.fresh = FALSE] : m \in memberCache}
    /\ CommitClient(Cur)
    /\ UNCHANGED chanVars
    /\ UNCHANGED outVars
    /\ UNCHANGED <<bulkCachedGroups, peerProcessed, runs, form>>

\* ---------------------------------------------------------- message forms

\* A text is the sequence of its tokens: a letter, a blank, a bracketed CQ
\* code, or a label the listener writes.  The labels stand for the ones of
\* the source: "[face]" for the face label of line 100, "[image]" for the
\* image label of lines 104 and 576, "[voice]", "[video]", "[card]" and
\* "[file: f]" for those of lines 575-596.
SegmentKinds ==
    {"text", "at", "face", "image", "imageUrl", "record", "video", "json",
     "file", "reply"}

\* a segment's inline encoding, as OneBot writes it into raw_message and
\* into a string-form message; "imageUrl" is an image with an http URL
CQ(kind) ==
    CASE kind = "text" -> "a"
      [] kind = "at" -> "[CQ:at,qq=7]"
      [] kind = "face" -> "[CQ:face,id=1]"
      [] kind = "image" -> "[CQ:image,file=f]"
      [] kind = "imageUrl" -> "[CQ:image,file=f,url=http]"
      [] kind = "record" -> "[CQ:record,file=f]"
      [] kind = "video" -> "[CQ:video,file=f]"
      [] kind = "json" -> "[CQ:json,data=d]"
      [] kind = "file" -> "[CQ:file,file=f]"
      [] kind = "reply" -> "[CQ:reply,id=1]"

Encode(msg) == [k \in 1..Len(msg) |-> CQ(msg[k])]

CQCodes == {CQ(kind) : kind \in SegmentKinds \ {"text"}}

RECURSIVE Flatten(_)
Flatten(ss) == IF ss = <<>> THEN <<>> ELSE Head(ss) \o Flatten(Tail(ss))

\* replace(/\s+/g, " ").trim(), line 110
RECURSIVE CollapseBlanks(_)
CollapseBlanks(s) ==
    IF s = <<>> THEN <<>>
    ELSE IF Head(s) = " " /\ (Len(s) = 1 \/ s[2] = " ") THEN CollapseBlanks(Tail(s))
    ELSE <<Head(s)>> \o CollapseBlanks(Tail(s))

TrimBlanks(s) ==
    LET c == CollapseBlanks(s)
    IN  IF c # <<>> /\ Head(c) = " " THEN Tail(c) ELSE c

\* cleanCQCodes(), lines 84-116
CleanCQCodes(text) ==
    LET imageUrls == SelectSeq(text, LAMBDA tok : tok = CQ("imageUrl"))
        faces == [k \in 1..Len(text) |->
                    IF text[k] = CQ("face") THEN "[face]" ELSE text[k]]
        codes == Flatten([k \in 1..Len(faces) |->
                    IF faces[k] \in {CQ("image"), CQ("imageUrl")} THEN <<"[image]">>
                    ELSE IF faces[k] \in CQCodes THEN <<>>
                    ELSE <<faces[k]>>])
        result == TrimBlanks(codes)
        urls == [k \in 1..Len(imageUrls) |-> "[image: http]"]
    IN  IF imageUrls = <<>> THEN result
        ELSE IF result # <<>> THEN result \o <<" ">> \o urls
        ELSE urls

\* the loop of lines 564-600 over the segments of an array-form message,
\* outside a group or with no name cached
RenderSegment(kind) ==
    CASE kind = "text" -> <<"a">>
      [] kind = "at" -> <<" ", "@7", " ">>
      [] kind = "record" -> <<" ", "[voice]">>
      [] kind \in {"image", "imageUrl"} -> <<" ", "[image]">>
      [] kind = "video" -> <<" ", "[video]">>
      [] kind = "json" -> <<" ", "[card]">>
      [] kind = "file" -> <<" ", "[file: f]">>
      [] OTHER -> <<>>

\* the text of an array-form message, lines 562-600, as it goes into the
\* body, line 781
SegmentedText(msg) ==
    LET resolvedText == Flatten([k \in 1..Len(msg) |-> RenderSegment(msg[k])])
        text == IF resolvedText # <<>> THEN resolvedText ELSE Encode(msg)
    IN  CleanCQCodes(text)

\* the text of a string-form message: raw_message, line 562, as it goes
\* into the body, line 781
InlineText(msg) == CleanCQCodes(Encode(msg))

IdleForm == [pc |-> "idle", message |-> <<>>, segmented |-> <<>>, inline |-> <<>>]

\* the listener gets the message once as an array and once as a string
NormalizeForms ==
    /\ form.pc = "idle"
    /\ form' = [form EXCEPT !.pc = "done",
                            !.segmented = SegmentedText(form.message),
                            !.inline = InlineText(form.message)]
    /\ CommitClient(Cur)
    /\ UNCHANGED chanVars
    /\ UNCHANGED outVars
    /\ UNCHANGED <<memberCache, bulkCachedGroups, peerProcessed, runs>>

\* ---------------------------------------------------- head of the listener

\* An event as the head of the "message" listener reads it, channel.ts lines
\* 497-531: a message or a poke notice (post_type "notice", notice_type
\* "notify", sub_type "poke"), its sender user_id, the poked target_id (0 in
\* a message), group_id (0: none) and self_id (0: absent).
HeadEvents ==
    [post_type : {"message"}, user_id : {SelfId, Member}, target_id : {0},
     group_id : {0, Group}, self_id : {0, SelfId}]
    \cup [post_type : {"notice"}, user_id : {SelfId, Member},
          target_id : {SelfId, Member}, group_id : {0, Group}, self_id : {0, SelfId}]

\* lines 511-531 for one event (autoApproveRequests off): the poke at the
\* bot becomes a message and is poked back, lines 512-523; what is no
\* message returns, line 527; the bot's own event returns, lines 529-531.
\* poked: the poke-back call made; passed: the run goes on to the
\* deduplication and the reply pipeline.
ListenerHead(ev, id) ==
    LET atBot == ev.post_type = "notice" /\ id # 0 /\ ev.target_id = id
        poked == IF ~atBot THEN "none"
                 ELSE IF ev.group_id # 0 THEN "sendGroupPoke" ELSE "sendFriendPoke"
        self == IF id # 0 THEN id ELSE ev.self_id
    IN  [ev |-> ev, selfId |-> self, poked |-> poked,
         passed |-> /\ (ev.post_type = "message" \/ atBot)
                    /\ ~(self # 0 /\ ev.user_id = self)]

\* an event arrives on the forward socket and the listener runs up to the
\* self filter
HeadEvent(ev) ==
    /\ ws = "OPEN"
    /\ Len(handlers) < MaxRuns
    /\ CommitClient(OnForwardFrame(Cur, MsgFrame(0)))
    /\ handlers' = Append(handlers, ListenerHead(ev, selfId))
    /\ UNCHANGED <<config, otherIds, processedMsgIds, passedSinceClear, pipeline>>
    /\ UNCHANGED outVars
    /\ UNCHANGED normVars

\* ------------------------------------------------------------ account layer

\* new OneBotClient(options): the fields of a client just constructed
NewClient(s) ==
    [s EXCEPT !.ws = "null", !.isAlive = FALSE, !.reconnectAttempts = 0,
              !.reconnectTimer = 0, !.heartbeatTimer = 0, !.timeouts = {},
              !.intervals = {}, !.selfId = 0, !.reverseWss = FALSE,
              !.reverseWs = 0, !.rev = [r \in RevIds |-> "NONE"],
              !.calls = [c \in CallIds |-> NoCall], !.started = FALSE,
              !.sinceTick = "none", !.firedSinceOpen = 0, !.liveSockets = 0]

\* what a client that is no longer the account's is left with: its live
\* forward sockets and its armed reconnect and heartbeat timers
Left(s) ==
    [live |-> s.liveSockets,
     armed |-> Cardinality(s.timeouts) + Cardinality(s.intervals)]

\* gateway.startAccount(), channel.ts lines 458-483 and 816-817: the client
\* the map holds for the account is disconnected, a new client is built, put
\* in the map, connected, and its reverse listener started
StartAccount(throws) ==
    /\ starts < MaxStarts
    /\ LET old == IF inMap THEN Disconnect(Cur) ELSE Cur
           s1 == [NewClient(old) EXCEPT
                     !.retired = IF starts > 0 THEN @ \cup {Left(old)} ELSE @,
                     !.inMap = TRUE, !.starts = @ + 1]
           s2 == [ConnectOp(s1, throws) EXCEPT !.started = TRUE]
       IN  /\ CommitClient(StartReverseWsOp(s2))
           /\ processedMsgIds' = {} /\ otherIds' = 0
           /\ passedSinceClear' = [i \in MsgIds |-> 0]
           /\ handlers' = <<>> /\ pipeline' = <<>>
           /\ UNCHANGED config
           /\ UNCHANGED outVars
           /\ UNCHANGED normVars

\* the function startAccount() returns, channel.ts lines 818-822
StopAccount ==
    /\ inMap
    /\ Commit([Disconnect(Cur) EXCEPT !.inMap = FALSE])

\* the function an earlier startAccount() of the account returned, channel.ts
\* lines 818-822, called after the account was started again: its client is
\* the replaced one, which the later start has disconnected already, and
\* clients.delete(account.accountId) removes whatever the map holds
StopEarlier ==
    /\ starts >= 2
    /\ Commit([Cur EXCEPT !.inMap = FALSE])

\* ------------------------------------------------------------ status probe

\* status.probeAccount(), channel.ts lines 351-389, with wsUrl set and no
\* HTTP base URL.  The call under way: pc "pending" until its promise is
\* resolved; timer: the probe's timeout is armed; sent: what it resolved
\* with ("ok", "error", "timeout").
ProbeJob == [op |-> "probeAccount", pc |-> "pending", timer |-> TRUE, sent |-> "none"]

\* clearTimeout(timer) and resolve(): a resolved promise stays as it is
ProbeResolve(j, with) ==
    IF j.pc = "pending" THEN [j EXCEPT !.pc = "resolved", !.sent = with, !.timer = FALSE]
    ELSE [j EXCEPT !.timer = FALSE]

ProbeTimeoutResolvesOnly(o) == [o EXCEPT !.job = ProbeResolve(@, "timeout")]

\* the callback of the probe's timeout, lines 361-364
ProbeTimeoutOp(o) ==
    [o EXCEPT !.client = Disconnect(@), !.job = ProbeResolve(@, "timeout")]

\* the "connect" listener after await client.getLoginInfo(), lines 367-378,
\* for every call that has settled since `before`: both branches clear the
\* timeout, disconnect the client and resolve
ProbeContinue(o, before) ==
    LET settled == {c \in CallIds : /\ before[c].state = "pending"
                                    /\ o.client.calls[c].state \in {"resolved", "rejected"}}
    IN  IF settled = {} THEN o
        ELSE [o EXCEPT !.client = Disconnect(@),
                       !.job = ProbeResolve(@,
                                  IF \E c \in settled : o.client.calls[c].state = "resolved"
                                  THEN "ok" ELSE "error")]

\* probeAccount() up to the return of its promise, lines 351-388: the client
\* is built, the timeout armed, the listeners registered, connect() called
ProbeAccount(throws) ==
    /\ job.pc = "idle"
    /\ CommitOut([CurOut EXCEPT
            !.client = [ConnectOp(NewClient(@), throws) EXCEPT !.started = TRUE],
            !.job = ProbeJob])

\* the socket's "open" event, part_004 lines 49-57: the "connect" listener
\* runs up to await client.getLoginInfo(), which sends the query with token e
ProbeOpen ==
    /\ ws = "CONNECTING"
    /\ FreeCalls(calls) # {}
    /\ \E e \in Tokens :
        LET c == FirstFree(calls)
            s1 == [Cur EXCEPT !.ws = "OPEN", !.isAlive = TRUE,
                              !.reconnectAttempts = 0, !.firedSinceOpen = 0]
            s2 == Emit(s1, "connect", NoFrame, "none")
            s3 == SendWithResponseWs([s2 EXCEPT !.calls[c].kind = "sendWithResponse"], c, e)
        IN  CommitOut([CurOut EXCEPT
                !.client = [StartHeartbeat(s3) EXCEPT !.sinceTick = "open"]])

\* a frame arrives on the probe's socket: the reply handlers run, and then
\* the listener whose query it answers
ProbeFrame(f) ==
    /\ ws = "OPEN"
    /\ CommitOut(ProbeContinue([CurOut EXCEPT !.client = OnForwardFrame(@, f)], calls))

\* the 5 s timeout of a login query fires, part_004 lines 410-413, and the
\* listener that awaits it goes on in its catch branch
ProbeRequestTimeout ==
    \E c \in CallIds :
        /\ calls[c].timer # 0
        /\ CommitOut(ProbeContinue(
                [CurOut EXCEPT !.client.calls[c] = Release(OnRequestTimeout(@))], calls))

\* the probe's timeout fires
ProbeTimeout ==
    /\ job.op = "probeAccount" /\ job.timer
    /\ CommitOut(ProbeTimeoutOp(CurOut))

\* ------------------------------------------------------------ specifications

InitListener ==
    /\ processedMsgIds = {}
    /\ otherIds = 0
    /\ passedSinceClear = [i \in MsgIds |-> 0]
    /\ handlers = <<>>
    /\ pipeline = <<>>
    /\ memberCache = {}
    /\ bulkCachedGroups = {}
    /\ peerProcessed = {}
    /\ runs = <<>>

InitChannel == InitListener /\ form = IdleForm

InitClient ==
    /\ ws = "null"
    /\ isAlive = FALSE
    /\ reconnectAttempts = 0
    /\ reconnectTimer = 0
    /\ heartbeatTimer = 0
    /\ timeouts = {}
    /\ intervals = {}
    /\ selfId = 0
    /\ reverseWss = FALSE
    /\ reverseWs = 0
    /\ rev = [r \in RevIds |-> "NONE"]
    /\ calls = [c \in CallIds |-> NoCall]
    /\ emitted = <<>>
    /\ httpReply = NoHttp
    /\ started = FALSE
    /\ sinceTick = "none"
    /\ firedSinceOpen = 0
    /\ liveSockets = 0
    /\ inMap = FALSE
    /\ starts = 0
    /\ retired = {}
    /\ config \in [enableDeduplication : {TRUE}, rateLimitMs : {0},
                   maxMessageLength : {0}]
    /\ InitChannel
    /\ InitOutbound

\* The forward connection: its socket, the reconnect and heartbeat timers.
Init ==
    /\ options \in [httpUrl : {FALSE}, reverseWsPort : {FALSE}, accessToken : BOOLEAN]
    /\ InitClient

Next ==
    \/ \E throws \in BOOLEAN : Connect(throws)
    \/ DisconnectCall
    \/ \E l \in ListenerOps : SocketOpen(l)
    \/ SocketClosing
    \/ \E l \in ListenerOps : SocketClose(l)
    \/ \E l \in ListenerOps : SocketError(l)
    \/ \E f \in Frames : ForwardFrame(f)
    \/ \E l \in ListenerOps : HeartbeatTick(l)
    \/ \E throws \in BOOLEAN : ReconnectTimerFire(throws)

Spec == Init /\ [][Next]_vars

\* The timers of the event loop fire when they are due.
FairSpec == Spec /\ WF_vars(\E throws \in BOOLEAN : ReconnectTimerFire(throws))

\* The action transport: which socket a send goes to, and the HTTP fallback.
InitSend ==
    /\ options \in [httpUrl : BOOLEAN, reverseWsPort : {TRUE}, accessToken : {FALSE}]
    /\ InitClient

NextSend ==
    \/ Connect(FALSE)
    \/ DisconnectCall
    \/ SocketOpen("none")
    \/ SocketClosing
    \/ SocketClose("none")
    \/ StartReverseWs
    \/ ReverseConnection
    \/ ReverseClose
    \/ \E c \in 1..MaxSendCalls : SendWs(c)
    \/ \E c \in 1..MaxSendCalls : SendAction(c)
    \/ \E c \in 1..MaxSendCalls : SendWithResponse(c)
    \/ HttpResponse
    \/ RequestTimeout

SpecSend == InitSend /\ [][NextSend]_vars

\* The timers of the event loop fire when they are due; the HTTP endpoint is
\* not obliged to answer.
FairSpecSend == SpecSend /\ WF_vars(RequestTimeout)

\* The request correlator over both sockets (no HTTP base URL).
InitCorr ==
    /\ options \in [httpUrl : {FALSE}, reverseWsPort : {TRUE}, accessToken : {FALSE}]
    /\ InitClient

CorrFrames == {f \in Frames : f.kind = "reply"}

NextCorr ==
    \/ Connect(FALSE)
    \/ SocketOpen("none")
    \/ \E f \in CorrFrames : ForwardFrame(f)
    \/ StartReverseWs
    \/ ReverseConnection
    \/ \E r \in RevIds, f \in CorrFrames : ReverseFrame(r, f)
    \/ \E c \in CallIds : SendWithResponse(c)
    \/ RequestTimeout

SpecCorr == InitCorr /\ [][NextCorr]_vars

\* The frames of both sockets and the connections the reverse listener gets,
\* with and without an access token.
InitInbound ==
    /\ options \in [httpUrl : {FALSE}, reverseWsPort : {TRUE}, accessToken : BOOLEAN]
    /\ InitClient

NextInbound ==
    \/ Connect(FALSE)
    \/ SocketOpen("none")
    \/ SocketClose("none")
    \/ \E f \in Frames : ForwardFrame(f)
    \/ StartReverseWs
    \/ ReverseConnection
    \/ \E r \in RevIds, f \in Frames : ReverseFrame(r, f)
    \/ ReverseClose
    \/ \E c \in 1..MaxSendCalls : SendWs(c)

SpecInbound == InitInbound /\ [][NextInbound]_vars

\* An account's clients over restarts: the listeners channel.ts registers do
\* not call disconnect() from inside emit().
InitAccount ==
    /\ options \in [httpUrl : {FALSE}, reverseWsPort : BOOLEAN, accessToken : {FALSE}]
    /\ InitClient

NextAccount ==
    \/ \E throws \in BOOLEAN : StartAccount(throws)
    \/ StopAccount
    \/ inMap /\ Connect(FALSE)
    \/ SocketOpen("none")
    \/ SocketClosing
    \/ SocketClose("none")
    \/ SocketError("none")
    \/ HeartbeatTick("none")
    \/ \E throws \in BOOLEAN : ReconnectTimerFire(throws)
    \/ ReverseConnection
    \/ ReverseClose

SpecAccount == InitAccount /\ [][NextAccount]_vars

\* A started account whose forward socket is open and whose listener has
\* accepted a reverse connection.
ConnectedSockets ==
    /\ ws = "OPEN" /\ liveSockets = 1
    /\ started = TRUE /\ inMap = TRUE /\ starts = 1
    /\ reconnectAttempts = 0 /\ firedSinceOpen = 0
    /\ reconnectTimer = 0 /\ timeouts = {}
    /\ heartbeatTimer = 1 /\ intervals = {[id |-> 1, period |-> HeartbeatInterval]}
    /\ reverseWss = TRUE /\ reverseWs = 1
    /\ rev = [r \in RevIds |-> IF r = 1 THEN "OPEN" ELSE "NONE"]
    /\ calls = [c \in CallIds |-> NoCall]
    /\ retired = {}
    /\ httpReply = NoHttp

Connected == ConnectedSockets /\ selfId = 0

\* Deduplication of inbound message events, from a connected account on.
InitDedup ==
    /\ options = [httpUrl |-> FALSE, reverseWsPort |-> TRUE, accessToken |-> FALSE]
    /\ config \in [enableDeduplication : BOOLEAN, rateLimitMs : {0},
                   maxMessageLength : {0}]
    /\ Connected
    /\ isAlive = TRUE /\ sinceTick = "open" /\ emitted = <<>>
    /\ InitChannel
    /\ InitOutbound

NextDedup ==
    \/ ForwardMessage(1, 0)
    \/ \E r \in RevIds : ReverseMessage(r, 1, 0)
    \/ OtherMessage
    \/ Sweep

SpecDedup == InitDedup /\ [][NextDedup]_vars

\* The runs of the "message" listener and their lookups, from a connected
\* account on.
NextOrder ==
    \/ \E id \in MsgIds, n \in 0..MaxLookups : ForwardMessage(id, n)
    \/ \E r \in RevIds, id \in MsgIds, n \in 0..MaxLookups : ReverseMessage(r, id, n)
    \/ \E e \in 1..MaxEvents : LookupDone(e)

SpecOrder == InitDedup /\ [][NextOrder]_vars

\* The strings over an alphabet, up to a length.
StringsUpTo(chars, n) == UNION {[1..k -> chars] : k \in 0..n}

\* splitMessage() on every text over two characters up to MaxLen and every
\* limit from 1 to MaxLimit, and on the 9000 characters of the example.
TextChars == {"a", "b"}

LongText == TextOf(9000)

InitSplit ==
    /\ options = [httpUrl |-> FALSE, reverseWsPort |-> TRUE, accessToken |-> FALSE]
    /\ config = [enableDeduplication |-> TRUE, rateLimitMs |-> 0, maxMessageLength |-> 0]
    /\ Connected
    /\ isAlive = TRUE /\ sinceTick = "open" /\ emitted = <<>>
    /\ InitChannel
    /\ sends = <<>>
    /\ \/ \E text \in StringsUpTo(TextChars, MaxLen), limit \in 1..MaxLimit :
            job = [IdleJob EXCEPT !.text = text, !.limit = limit]
       \/ job = [IdleJob EXCEPT !.text = LongText, !.limit = 4000]

NextSplit == SplitMessageCall

SpecSplit == InitSplit /\ [][NextSplit]_vars

\* parseTarget() on the destination strings made of a prefix and a payload
\* of up to MaxPayload characters, and on the strings of the examples.
PayloadChars == {"1", "a", ":", "-", " "}

TargetPrefixes ==
    {<<>>, GroupPrefix, GuildPrefix, PrivatePrefix, <<"q", "q", ":">>,
     <<"q", "q", ":">> \o GroupPrefix}

TargetExamples ==
    {GroupPrefix \o <<"1", "2", "3">>, GuildPrefix \o <<"9", ":", "4">>,
     PrivatePrefix \o <<"5", "5">>, <<"5", "5">>,
     GroupPrefix \o <<"a", "b", "c">>, GroupPrefix \o <<"1", "2", "a", "b">>,
     <<"1", "2", "a", "b">>, <<"-", "5">>}

Targets ==
    {prefix \o payload :
        prefix \in TargetPrefixes, payload \in StringsUpTo(PayloadChars, MaxPayload)}
    \cup TargetExamples

InitTarget ==
    /\ options = [httpUrl |-> FALSE, reverseWsPort |-> TRUE, accessToken |-> FALSE]
    /\ config = [enableDeduplication |-> TRUE, rateLimitMs |-> 0, maxMessageLength |-> 0]
    /\ Connected
    /\ isAlive = TRUE /\ sinceTick = "open" /\ emitted = <<>>
    /\ InitChannel
    /\ sends = <<>>
    /\ \E to \in Targets : job = [IdleJob EXCEPT !.to = to]

NextTarget ==
    \/ ParseTargetCall
    \/ ParseTargetPart000Call

SpecTarget == InitTarget /\ [][NextTarget]_vars

\* The outbound calls of a connected account: sendText, sendMedia and the
\* reply deliver path, over the socket or over HTTP.
InitOut ==
    /\ options \in [httpUrl : BOOLEAN, reverseWsPort : {TRUE}, accessToken : {FALSE}]
    /\ config \in [enableDeduplication : {TRUE}, rateLimitMs : {0, 1000},
                   maxMessageLength : {0, 2}]
    /\ Connected
    /\ isAlive = TRUE /\ sinceTick = "open" /\ emitted = <<>>
    /\ InitChannel
    /\ InitOutbound

NextOut ==
    \/ SendTextCall
    \/ SendMediaCall
    \/ MediaResolved
    \/ DeliverCall
    \/ SleepDone
    \/ SendHttpResponse

SpecOut == InitOut /\ [][NextOut]_vars

\* The "message" listener's runs for the events of two accounts of one
\* process, from a connected account that knows its own id on.  The options
\* autoMarkRead, reactionEmoji, requireMention and admins are configured
\* together, or none of them is.
WithId(ev, id) == IF ev.type = "poke" THEN ev ELSE [ev EXCEPT !.message_id = id]

InitNorm ==
    /\ options = [httpUrl |-> FALSE, reverseWsPort |-> TRUE, accessToken |-> FALSE]
    /\ \E on \in BOOLEAN :
          config = [enableDeduplication |-> TRUE, rateLimitMs |-> 0,
                    maxMessageLength |-> 0, autoMarkRead |-> on,
                    reactionEmoji |-> on, requireMention |-> on,
                    admins |-> on, historyLimit |-> 5]
    /\ ConnectedSockets /\ selfId = SelfId
    /\ isAlive = TRUE /\ sinceTick = "open"
    /\ emitted = <<>>
    /\ InitChannel
    /\ InitOutbound

NextNorm ==
    \/ /\ Len(runs) < MaxRuns
       /\ \/ \E ev \in ControlEvents, id \in MsgIds :
                EventOnForward(WithId(ev, id))
          \/ \E r \in RevIds, ev \in ControlEvents, id \in MsgIds :
                EventOnReverse(r, WithId(ev, id))
          \/ \E ev \in PeerEvents : PeerEvent(WithId(ev, 1))
    \/ \E k \in 1..MaxRuns, ok \in BOOLEAN : RunLookupDone(k, ok)
    \/ SocketClosing
    \/ ReverseClose
    \/ StopAccount

SpecNorm == InitNorm /\ [][NextNorm]_vars

\* The runs of one account's listener for events that need lookups, each
\* lookup succeeding or failing, the sockets staying open.
InitLookup == InitNorm

NextLookup ==
    \/ /\ Len(runs) < MaxSolo
       /\ \/ \E ev \in LookupEvents, id \in MsgIds :
                EventOnForward(WithId(ev, id))
          \/ \E r \in RevIds, ev \in LookupEvents, id \in MsgIds :
                EventOnReverse(r, WithId(ev, id))
    \/ \E k \in 1..MaxSolo, ok \in BOOLEAN : RunLookupDone(k, ok)

SpecLookup == InitLookup /\ [][NextLookup]_vars

\* The listener's text for the messages of up to MaxSegments segments, in
\* their two forms.
InitForms ==
    /\ options = [httpUrl |-> FALSE, reverseWsPort |-> TRUE, accessToken |-> FALSE]
    /\ config = [enableDeduplication |-> TRUE, rateLimitMs |-> 0, maxMessageLength |-> 0]
    /\ Connected
    /\ isAlive = TRUE /\ sinceTick = "open" /\ emitted = <<>>
    /\ InitListener
    /\ InitOutbound
    /\ \E msg \in StringsUpTo(SegmentKinds, MaxSegments) :
          form = [IdleForm EXCEPT !.message = msg]

NextForms == NormalizeForms

SpecForms == InitForms /\ [][NextForms]_vars

\* The heartbeat monitor of a connected account whose two sockets both
\* deliver frames.
InitHeartbeat ==
    /\ options = [httpUrl |-> FALSE, reverseWsPort |-> TRUE, accessToken |-> FALSE]
    /\ config = [enableDeduplication |-> TRUE, rateLimitMs |-> 0, maxMessageLength |-> 0]
    /\ Connected
    /\ isAlive = TRUE /\ sinceTick = "open" /\ emitted = <<>>
    /\ InitChannel
    /\ InitOutbound

NextHeartbeat ==
    \/ \E f \in Frames : ForwardFrame(f)
    \/ \E r \in RevIds, f \in Frames : ReverseFrame(r, f)
    \/ HeartbeatTick("none")
    \/ ReconnectTimerFire(FALSE)
    \/ SocketOpen("none")
    \/ ReverseConnection
    \/ ReverseClose

SpecHeartbeat == InitHeartbeat /\ [][NextHeartbeat]_vars

\* An account that is started again, with the stop functions of both starts
\* at hand.
InitRestart == InitAccount

NextRestart ==
    \/ \E throws \in BOOLEAN : StartAccount(throws)
    \/ StopAccount
    \/ StopEarlier
    \/ SocketOpen("none")
    \/ SocketClose("none")
    \/ HeartbeatTick("none")
    \/ ReconnectTimerFire(FALSE)
    \/ ReverseConnection
    \/ ReverseClose

SpecRestart == InitRestart /\ [][NextRestart]_vars

\* splitMessage() as the reply deliver path calls it, for the configured
\* values of maxMessageLength from -MaxLimit to MaxLimit.
InitChunk ==
    /\ options = [httpUrl |-> FALSE, reverseWsPort |-> TRUE, accessToken |-> FALSE]
    /\ config \in [enableDeduplication : {TRUE}, rateLimitMs : {0},
                   maxMessageLength : (0 - MaxLimit)..MaxLimit]
    /\ Connected
    /\ isAlive = TRUE /\ sinceTick = "open" /\ emitted = <<>>
    /\ InitChannel
    /\ sends = <<>>
    /\ \E text \in StringsUpTo(TextChars, MaxLen) : job = ChunkJob(text)

NextChunk ==
    \/ SplitEnter
    \/ SplitIterate
    \/ SplitReturn

SpecChunk == InitChunk /\ [][NextChunk]_vars

\* The head of the listener for events of the bot itself and of another
\* user, on a client that knows its own id or does not.
InitHead ==
    /\ options = [httpUrl |-> FALSE, reverseWsPort |-> TRUE, accessToken |-> FALSE]
    /\ config = [enableDeduplication |-> TRUE, rateLimitMs |-> 0, maxMessageLength |-> 0]
    /\ ConnectedSockets
    /\ selfId \in {0, SelfId}
    /\ isAlive = TRUE /\ sinceTick = "open" /\ emitted = <<>>
    /\ InitChannel
    /\ InitOutbound

NextHead == \E ev \in HeadEvents : HeadEvent(ev)

SpecHead == InitHead /\ [][NextHead]_vars

\* The member cache over the hours: group events that mention a member, the
\* roster lookups they wait for, and the passing of an hour.
InitCache == InitNorm

NextCache ==
    \/ /\ Len(runs) < MaxRuns
       /\ \E ev \in {GroupAt, GroupAtBot}, id \in MsgIds : EventOnForward(WithId(ev, id))
    \/ \E k \in 1..MaxRuns, ok \in BOOLEAN : RunLookupDone(k, ok)
    \/ HourPasses

SpecCache == InitCache /\ [][NextCache]_vars

\* One status probe against a gateway that refuses, accepts, stays silent,
\* answers, or drops the connection.
InitProbe ==
    /\ options = [httpUrl |-> FALSE, reverseWsPort |-> FALSE, accessToken |-> FALSE]
    /\ InitClient

NextProbe ==
    \/ \E throws \in BOOLEAN : ProbeAccount(throws)
    \/ ProbeOpen
    \/ \E f \in Frames : ProbeFrame(f)
    \/ ProbeRequestTimeout
    \/ ProbeTimeout
    \/ SocketClose("none")
    \/ SocketError("none")
    \/ HeartbeatTick("none")
    \/ \E throws \in BOOLEAN : ReconnectTimerFire(throws)

SpecProbe == InitProbe /\ [][NextProbe]_vars

FairSpecProbe == SpecProbe /\ WF_vars(ProbeTimeout)

\* ------------------------------------------------------------------ claims

ReconnectArmed == reconnectTimer # 0 /\ \E t \in timeouts : t.id = reconnectTimer
HeartbeatArmed == heartbeatTimer # 0 /\ \E t \in intervals : t.id = heartbeatTimer

\* C1: once disconnect() has returned and until connect() is called again, no
\* reconnect timer and no heartbeat timer is armed and the client holds no
\* forward socket (so no connection attempt is made), also when disconnect()
\* was called from inside a "connect" or "disconnect" listener.
C1_DisconnectStopsEverything ==
    ~started => ws = "null" /\ timeouts = {} /\ intervals = {}
                /\ reconnectTimer = 0 /\ heartbeatTimer = 0

\* C2: between connect() and the next disconnect() the client always holds a
\* forward socket or has a reconnect timer armed, and after a failed attempt
\* with the counter at n a further attempt is eventually made.
C2_NeverGivesUp ==
    /\ [](started => (ws # "null" \/ ReconnectArmed))
    /\ \A n \in 0..(MaxAttempts - 1) :
          (started /\ ws = "null" /\ reconnectAttempts = n)
              ~> (~started \/ ws # "null" \/ reconnectAttempts > n)

\* after several consecutive failed attempts a reconnect is still scheduled
C2_Witness ==
    started /\ ws = "null" /\ reconnectAttempts >= 3 /\ ReconnectArmed

\* C3: an armed reconnect timer, scheduled with the counter at N, has the delay
\* min(1000 * 2^N, 60000) ms, and N is the number of reconnect timers that
\* fired since the last successful open.
C3_BackoffDelay ==
    /\ \A t \in timeouts :
          t.delay = (IF 1000 * 2^reconnectAttempts <= 60000
                     THEN 1000 * 2^reconnectAttempts ELSE 60000)
    /\ reconnectAttempts = firedSinceOpen

\* the delay has reached the cap
C3_Witness ==
    ReconnectArmed /\ reconnectAttempts = 6 /\ \E t \in timeouts : t.delay = 60000

\* what a tick that finds the connection stale does: handleDisconnect() once
\* (one "disconnect" event), no heartbeat left to tick again, one reconnect
\* timer armed
HeartbeatTriggered ==
    /\ Len(emitted') = 1 /\ emitted'[1].type = "disconnect"
    /\ intervals' = {}
    /\ Cardinality(timeouts') = 1
    /\ ws' = "null"

HeartbeatQuiet ==
    /\ emitted' = <<>>
    /\ UNCHANGED <<ws, timeouts, intervals, reconnectTimer, heartbeatTimer>>

SocketPathTaken(c) ==
    /\ calls[c].state \in {"unused", "http"}
    /\ calls'[c].state \notin {"unused", "http"}
    /\ calls'[c].result # "http"

\* C5: a send on the socket path (sendWs, sendAction, sendWithResponse) goes
\* to the forward socket if it is open, else to the reverse-accepted socket if
\* it is open; with neither open the call fails at once with the
\* no-connection error, and a failed call is never sent later.
C5_TransportRule ==
    /\ [][\A c \in CallIds : SocketPathTaken(c) =>
            IF ws = "OPEN"
            THEN calls'[c].sock = Fwd /\ calls'[c].result # "noconn"
            ELSE IF reverseWs # 0 /\ rev[reverseWs] = "OPEN"
            THEN calls'[c].sock = Rev(reverseWs) /\ calls'[c].result # "noconn"
            ELSE calls'[c].state = "rejected" /\ calls'[c].result = "noconn"
                 /\ calls'[c].sock = NoSock]_vars
    /\ [][\A c \in CallIds : calls[c].result = "noconn" => calls'[c] = calls[c]]_vars

\* a send went to the reverse socket while the forward socket existed but was
\* not open
C5_Witness ==
    /\ ws \in {"CONNECTING", "CLOSING"}
    /\ \E c \in CallIds, r \in RevIds :
          calls[c].sock = Rev(r) /\ calls[c].state \in {"resolved", "pending"}

\* what the claim counts as an HTTP failure
HttpFailureAsClaimed(o) ==
    \/ o.kind \in {"neterr", "non2xx", "badjson"}
    \/ o.kind = "json" /\ o.status # "ok"

\* C6: with an HTTP base URL, sendAction falls back to the socket on every
\* HTTP failure: network error, non-2xx status, or a JSON body whose status
\* field is not "ok", whatever its retcode.
C6_HttpFallback ==
    [][\A c \in CallIds :
          (calls[c].kind = "sendAction" /\ calls[c].state = "http"
           /\ calls'[c].state # "http" /\ HttpFailureAsClaimed(httpReply'))
          => calls'[c].result \in {"sent", "noconn"}]_vars

\* C9: every call that awaits a reply settles in the end, by a response, by
\* the 5 s timeout or by immediate rejection; also when the HTTP endpoint
\* never answers, and when the socket carrying the request is closed or
\* cleaned up while the call is pending.
C9_EveryCallSettles ==
    \A c \in CallIds :
        (calls[c].state \in {"http", "pending"})
            ~> (calls[c].state \in {"resolved", "rejected"})

\* C10: when disconnect() returns, no correlated call is left pending and
\* none has its reply handler registered or its timeout armed.
C10_NothingOutlivesDisconnect ==
    [][DisconnectCall =>
          \A c \in CallIds :
              calls'[c].state # "pending" /\ ~calls'[c].handler
              /\ calls'[c].timer = 0]_vars

\* the calls a frame f arriving on socket sock settles: exactly those whose
\* handler is on that socket with the token f echoes, each with the frame's
\* status; every other call is left as it is
SettlesExactly(sock, f) ==
    \A c \in CallIds :
        IF calls[c].handler /\ calls[c].sock = sock /\ calls[c].echo = f.echo
        THEN /\ calls'[c].state = (IF f.status = "ok" THEN "resolved" ELSE "rejected")
             /\ calls'[c].result = (IF f.status = "ok" THEN "data" ELSE "server")
             /\ ~calls'[c].handler
        ELSE calls'[c] = calls[c]

\* C7: a reply frame settles exactly the outstanding calls whose token equals
\* the frame's echo (on the socket that carried them), resolving on status
\* "ok" and rejecting otherwise, whatever the order of the replies; a reply
\* whose echo matches no outstanding call settles none.
C7_MatchedByToken ==
    [][/\ \A f \in CorrFrames : ForwardFrame(f) => SettlesExactly(Fwd, f)
       /\ \A r \in RevIds, f \in CorrFrames :
             ReverseFrame(r, f) => SettlesExactly(Rev(r), f)]_vars

\* two calls outstanding on one socket with different tokens, and the later
\* one was answered first
C7_Witness ==
    \E c, d \in CallIds :
        /\ c < d
        /\ calls[c].state = "pending" /\ calls[c].handler
        /\ calls[d].state = "resolved" /\ calls[d].timer # 0
        /\ calls[c].sock = calls[d].sock /\ calls[c].echo # calls[d].echo

\* C8: the 5 s timeout rejects a call that is still pending with the timeout
\* error and takes its reply handler off the socket; a call once settled (by
\* a reply or by the timeout) is never changed by a later reply or timeout.
C8_Timeout ==
    /\ [](\A c \in CallIds :
            /\ calls[c].state = "pending" => calls[c].timer = 5000
            /\ calls[c].handler => calls[c].state = "pending")
    /\ [][\A c \in CallIds :
            /\ (calls[c].timer # 0 /\ calls'[c].timer = 0) =>
                  /\ ~calls'[c].handler
                  /\ IF calls[c].state = "pending"
                     THEN calls'[c].state = "rejected" /\ calls'[c].result = "timeout"
                     ELSE calls'[c].state = calls[c].state
                          /\ calls'[c].result = calls[c].result
            /\ calls[c].state \in {"resolved", "rejected"} =>
                  calls'[c].state = calls[c].state /\ calls'[c].result = calls[c].result]_vars

\* one call was rejected by its timeout, and the timeout of another ran after
\* a reply had resolved it
C8_Witness ==
    \E c, d \in CallIds :
        /\ calls[c].result = "timeout" /\ ~calls[c].handler
        /\ calls[d].result = "data" /\ calls[d].timer = 0

C12_DisconnectIdempotent ==
    LET d == Disconnect(Cur)
    IN  /\ Disconnect(d) = d
        /\ d.ws = "null" /\ d.liveSockets = 0
        /\ ~d.reverseWss /\ d.reverseWs = 0
        /\ d.reconnectTimer = 0 /\ d.heartbeatTimer = 0
        /\ d.timeouts = {} /\ d.intervals = {}

\* disconnect() has closed an accepted reverse peer and stopped the listener
C12_Witness ==
    /\ ~started /\ ws = "null" /\ ~reverseWss /\ reverseWs = 0
    /\ \E r \in RevIds : rev[r] = "CLOSING"

C14_ReceiptOrder ==
    config.enableDeduplication =>
        \A i, j \in 1..Len(pipeline) :
            (i < j /\ handlers[pipeline[i]].sock = handlers[pipeline[j]].sock)
                => pipeline[i] < pipeline[j]

\* the chunks of a split, joined in order
RECURSIVE Concat(_)
Concat(ss) == IF ss = <<>> THEN <<>> ELSE Head(ss) \o Concat(Tail(ss))

SplitReturned == job.op = "splitMessage" /\ job.pc = "returned"

\* C16: for every text and every limit >= 1 the chunks splitMessage()
\* returns, joined in order, are the text; no chunk is longer than the limit,
\* every chunk but the last has exactly the limit's length, and there are
\* max(1, ceil(length / limit)) chunks; 9000 characters at limit 4000 give
\* chunks of 4000, 4000 and 1000 characters.
C16_SplitLossless ==
    SplitReturned =>
        /\ Concat(job.chunks) = job.text
        /\ \A k \in 1..Len(job.chunks) : Len(job.chunks[k]) <= job.limit
        /\ \A k \in 1..(Len(job.chunks) - 1) : Len(job.chunks[k]) = job.limit
        /\ Len(job.chunks) = Max(1, CeilDiv(Len(job.text), job.limit))
        /\ (Len(job.text) = 9000 /\ job.limit = 4000)
                => [k \in 1..Len(job.chunks) |-> Len(job.chunks[k])]
                        = <<4000, 4000, 1000>>

\* C16 witness: the 9000 characters of the example have been split in three.
C16_Witness ==
    /\ SplitReturned
    /\ Len(job.text) = 9000 /\ job.limit = 4000
    /\ Len(job.chunks) = 3

ParseReturned ==
    job.op \in {"parseTarget", "parseTargetPart000"} /\ job.pc = "returned"

\* C17: parseTarget(), in both copies of the channel file, maps "group:123"
\* to the group target 123, "guild:9:4" to the guild target ("9", "4"),
\* "private:55" and "55" to the same private target 55, and throws for
\* "group:abc".
C17_ParseExamples ==
    ParseReturned =>
        /\ job.to = GroupPrefix \o <<"1", "2", "3">>
                => job.target = [type |-> "group", groupId |-> 123]
        /\ job.to = GuildPrefix \o <<"9", ":", "4">>
                => job.target = [type |-> "guild", guildId |-> <<"9">>,
                                 channelId |-> <<"4">>]
        /\ job.to \in {PrivatePrefix \o <<"5", "5">>, <<"5", "5">>}
                => job.target = [type |-> "private", userId |-> 55]
        /\ job.to = GroupPrefix \o <<"a", "b", "c">>
                => job.target = TargetError("group")

\* C17 witness: parseTarget("group:abc") has thrown.
C17_Witness ==
    /\ job.op = "parseTarget" /\ job.pc = "returned"
    /\ job.to = GroupPrefix \o <<"a", "b", "c">>
    /\ job.target.type = "error"

AllDigits(s) == s # <<>> /\ \A k \in 1..Len(s) : s[k] \in Digits

\* a destination the grammar does not allow: a numeric payload that is not
\* a non-empty string of digits, or a guild destination without a non-empty
\* guild id or channel id
Malformed(to) ==
    IF StartsWith(to, GroupPrefix) THEN ~AllDigits(SliceFrom(to, 6))
    ELSE IF StartsWith(to, GuildPrefix)
    THEN LET parts == SplitColon(to)
         IN  Len(parts) < 3 \/ parts[2] = <<>> \/ parts[3] = <<>>
    ELSE IF StartsWith(to, PrivatePrefix) THEN ~AllDigits(SliceFrom(to, 8))
    ELSE ~AllDigits(to)

\* C18: parseTarget() throws for every destination whose numeric payload is
\* not a non-empty string of digits ("group:12ab", "private:", "12ab", "-5")
\* and for every guild destination without a non-empty guild id or channel
\* id.
C18_MalformedRejected ==
    (job.op = "parseTarget" /\ job.pc = "returned" /\ Malformed(job.to))
        => job.target.type = "error"

Settled(c) == calls[c].state \in {"resolved", "rejected"}

\* C15: in every multi-chunk send a chunk's transport call is started only
\* when the transport calls of the chunks before it have completed: of the
\* calls started so far, all but the latest have settled.
C15_ChunksInOrder ==
    job.op \in {"sendText", "deliver"}
        => \A k \in 1..(Len(sends) - 1) : Settled(sends[k].call)

HasExternalPrefix(to) == NormalizeTarget(to) # to

\* C19: sendText and sendMedia called with "qq:" + d, for a destination d of
\* the grammar, resolve to the target of d, and sendText starts d's first
\* transport call.
C19_PrefixStripped ==
    (/\ job.op \in {"sendText", "sendMedia"}
     /\ HasExternalPrefix(job.to)
     /\ ~Malformed(NormalizeTarget(job.to)))
        => /\ job.target = ParseTarget(NormalizeTarget(job.to))
           /\ job.op = "sendText" => Len(sends) >= 1

\* C20: in sendText with a reply-target id the first chunk is sent as a
\* reply segment followed by the chunk's text segment and every later chunk
\* as a plain string; without a reply-target id every chunk is a plain
\* string; the chunks are sent once each, in order.
C20_ReplyOnFirstChunkOnly ==
    job.op = "sendText" =>
        \A k \in 1..Len(sends) :
            /\ sends[k].chunk = k
            /\ sends[k].message =
                IF job.replyTo # 0 /\ k = 1
                THEN [kind |-> "array", chunk |-> 0, at |-> FALSE,
                      segments |-> <<[type |-> "reply", id |-> <<"7">>, chunk |-> 0],
                                     [type |-> "text", id |-> <<>>, chunk |-> 1]>>]
                ELSE [kind |-> "string", chunk |-> k, at |-> FALSE, segments |-> <<>>]

\* C20 witness: a two-chunk sendText with a reply-target id has sent both
\* chunks, the first with the reply segment and the second as a string.
C20_Witness ==
    /\ job.op = "sendText" /\ job.replyTo = 7 /\ job.pc = "returned"
    /\ Len(job.chunks) = 2 /\ Len(sends) = 2
    /\ sends[1].message.kind = "array"
    /\ sends[1].message.segments[1].type = "reply"
    /\ sends[2].message.kind = "string"

\* C26: at most one reconnect timer is armed at any time, whatever the
\* interleaving of close events, error events, heartbeat timeouts, a throwing
\* socket constructor and connect() calls.
C26_OneReconnectTimer == Cardinality(timeouts) <= 1

\* C26 witness: a reconnect timer fired, the attempt failed, and a timer is
\* armed again.
C26_Witness ==
    /\ firedSinceOpen >= 1
    /\ Cardinality(timeouts) = 1
    /\ ReconnectArmed

\* a loss of the forward connection is handled: a close event, an error
\* event, or a heartbeat tick that finds the connection stale
LossStep ==
    \/ \E l \in ListenerOps : SocketClose(l)
    \/ \E l \in ListenerOps : SocketError(l)
    \/ isAlive = FALSE /\ \E l \in ListenerOps : HeartbeatTick(l)

DisconnectEvents(es) == Cardinality({k \in 1..Len(es) : es[k].type = "disconnect"})

\* C27: every loss of the forward connection (close event, error event,
\* heartbeat timeout) emits exactly one disconnect event and leaves exactly
\* one reconnect timer armed; the socket's listeners are removed and the
\* heartbeat stopped by then, so a second event of the same socket is not
\* handled again.
C27_OneDisconnectPerLoss ==
    [][LossStep =>
        /\ DisconnectEvents(emitted') = 1
        /\ Cardinality(timeouts') = 1
        /\ ws' = "null"
        /\ heartbeatTimer' = 0]_vars

\* C27 witness: an open connection went stale, the heartbeat tick handled the
\* loss, one disconnect event was emitted and one reconnect timer is armed.
C27_Witness ==
    /\ sinceTick = "timeout"
    /\ DisconnectEvents(emitted) = 1
    /\ Cardinality(timeouts) = 1
    /\ ws = "null"

\* what the handler of a frame emits: nothing for a heartbeat meta-event and
\* for bytes that are not JSON, one message event with the decoded payload
\* for every other frame
EmitsFor(f) ==
    IF f.kind \in {"heartbeat", "malformed"} THEN <<>>
    ELSE <<[type |-> "message", payload |-> f]>>

\* C28: on the forward and on the reverse path a heartbeat meta-event frame
\* and a malformed frame produce no message event, and every other frame
\* produces exactly one message event carrying the decoded payload.
C28_FrameToEvent ==
    [][/\ \A f \in Frames : ForwardFrame(f) => emitted' = EmitsFor(f)
       /\ \A r \in RevIds, f \in Frames :
            (rev[r] # "REJECTED" /\ ReverseFrame(r, f)) => emitted' = EmitsFor(f)]_vars

\* C28 witness: a lifecycle frame came in on the reverse connection while
\* the forward socket was not open, and was emitted as one message event.
C28_Witness ==
    /\ ws # "OPEN"
    /\ Len(emitted) = 1
    /\ emitted[1].type = "message"
    /\ emitted[1].payload.kind = "lifecycle"
    /\ selfId = 1

\* C30: with an access token configured a reverse connection whose
\* Authorization header is not "Bearer <token>" is closed with code 4001 and
\* does not become the active reverse peer; it stays rejected, its frames
\* emit no event and settle no call, and no send goes out on it; every other
\* connection, and with no token every connection, is accepted.
C30_ReverseAuth ==
    /\ [][\A r \in RevIds, authOk \in BOOLEAN :
            (reverseWss /\ ReverseConnectionFrom(r, authOk)) =>
                IF options.accessToken /\ ~authOk
                THEN rev'[r] = "REJECTED" /\ reverseWs' = reverseWs
                ELSE rev'[r] = "OPEN" /\ reverseWs' = r]_vars
    /\ [][\A r \in RevIds : rev[r] = "REJECTED" =>
            /\ rev'[r] = "REJECTED"
            /\ \A f \in Frames : ReverseFrame(r, f) =>
                    emitted' = <<>> /\ selfId' = selfId /\ calls' = calls]_vars
    /\ [](\A r \in RevIds : rev[r] = "REJECTED" =>
            /\ reverseWs # r
            /\ \A c \in CallIds : calls[c].sock # Rev(r))

\* C30 witness: a connection was rejected, and a send made afterwards found
\* no socket to go out on.
C30_Witness ==
    /\ options.accessToken
    /\ rev[1] = "REJECTED"
    /\ reverseWs = 0
    /\ \E c \in CallIds : calls[c].result = "noconn"

Outstanding(c) == calls[c].state = "pending" /\ calls[c].handler

\* C29: no two socket-correlated calls that are outstanding at the same time
\* carry the same correlation token.
C29_TokensDistinct ==
    \A c, d \in CallIds :
        (c # d /\ Outstanding(c) /\ Outstanding(d)) => calls[c].echo # calls[d].echo

\* C23: a control call that finds no socket neither ends the run of the
\* event that issued it nor leaves an error behind: no run is aborted by a
\* throw, and no run has a rejected promise nobody handles
C23_ControlCallsNeverPropagate ==
    \A k \in 1..Len(runs) : runs[k].why # "throw" /\ runs[k].rejections = 0

\* the runs of the account that issued get_group_member_list for Group
RosterFetches == {k \in 1..Len(runs) : runs[k].acct = "A" /\ runs[k].fetched}

\* C22: for a group the full roster is fetched at most once, however the
\* runs of the group's events interleave and whatever the fetch returns
C22_RosterFetchedOnce == Cardinality(RosterFetches) <= 1

\* C24: two accounts of one process are independent: what a run renders or
\* skips comes from its own account's cache entries and markers, and a run
\* is dropped as a duplicate only for an id its own account has seen
C24_AccountsIndependent ==
    \A k \in 1..Len(runs) :
        /\ runs[k].nameFrom \in {"none", runs[k].acct}
        /\ runs[k].markerFrom \in {"none", runs[k].acct}
        /\ runs[k].why = "duplicate" =>
              \E j \in 1..(k - 1) :
                  /\ runs[j].acct = runs[k].acct
                  /\ runs[j].ev.message_id = runs[k].ev.message_id

\* C24 (the part that holds): the message ids one account has seen never
\* suppress an event of the other
C24_MessageIdsPerAccount ==
    \A k \in 1..Len(runs) :
        runs[k].why = "duplicate" =>
            \E j \in 1..(k - 1) :
                /\ runs[j].acct = runs[k].acct
                /\ runs[j].ev.message_id = runs[k].ev.message_id

\* the event is addressed to the bot where a mention is required: it comes
\* from a private chat, at-mentions the bot, or replies to a message of the
\* bot
Addressed(ev) ==
    \/ ev.message_type # "group" \/ ~config.requireMention
    \/ ev.at = SelfId \/ ev.reply = "bot"

Lookups == {"roster", "forward", "fileurl", "quote", "history"}

Unspaced(text) == SelectSeq(text, LAMBDA tok : tok # " ")

\* C25: the segmented and the inline-encoded form of a message give the
\* same text, blanks aside
C25_FormsAgree ==
    form.pc = "done" => Unspaced(form.segmented) = Unspaced(form.inline)

\* C25 (the kinds for which it holds): messages made of text, images
\* without URL and reply references give the same text in both forms
C25_FormsAgreeOnPlainKinds ==
    (/\ form.pc = "done"
     /\ \A k \in 1..Len(form.message) :
            form.message[k] \in {"text", "image", "reply"})
        => Unspaced(form.segmented) = Unspaced(form.inline)

\* the reverse connections accepted and authorized so far, and the last of
\* them (connections are numbered in the order they arrive)
Accepted == {r \in RevIds : rev[r] \in {"OPEN", "CLOSING", "CLOSED"}}
LastAccepted == CHOOSE r \in Accepted : \A q \in Accepted : q <= r

\* C31: while the listener runs, reverseWs is the most recently accepted
\* authorized reverse connection, or null once that one has closed; and
\* accepting a connection leaves every other connection as it was
C31_ActivePeerIsLastAccepted ==
    /\ [](reverseWss =>
            reverseWs = IF Accepted = {} THEN 0
                        ELSE IF rev[LastAccepted] = "CLOSED" THEN 0
                        ELSE LastAccepted)
    /\ [][\A r \in RevIds, authOk \in BOOLEAN :
            ReverseConnectionFrom(r, authOk) =>
                \A q \in RevIds \ {r} : rev'[q] = rev[q]]_vars

\* connection 2 was accepted after connection 1 and is the active peer, and
\* connection 1 has closed since
C31_Witness == rev[1] = "CLOSED" /\ rev[2] = "OPEN" /\ reverseWs = 2

SendActionCalls == {c \in CallIds : calls[c].kind = "sendAction"}

\* C36: a sendAction call goes over one transport or fails: while the POST
\* is in flight and after it succeeded the call has sent no socket frame;
\* without an HTTP base URL or after a failed POST it sends one frame, with
\* no echo token and no reply handler, on the socket getActiveWs() selects,
\* or is rejected with no frame sent when there is none; and once settled
\* it sends nothing more
C36_OneTransport ==
    /\ [](\A c \in SendActionCalls :
            /\ calls[c].frames <= 1
            /\ calls[c].echo = 0 /\ ~calls[c].handler
            /\ calls[c].state = "http" => options.httpUrl /\ calls[c].frames = 0
            /\ calls[c].result = "http" => options.httpUrl /\ calls[c].frames = 0
            /\ calls[c].result = "noconn" => calls[c].frames = 0
            /\ calls[c].result = "sent" =>
                  calls[c].frames = 1 /\ calls[c].sock # NoSock)
    /\ [][\A c \in CallIds :
            /\ (calls'[c].kind = "sendAction" /\ calls'[c] # calls[c]
                /\ calls'[c].state \in {"resolved", "rejected"}) =>
                  /\ calls[c].state \in {"unused", "http"}
                  /\ calls[c].state = "unused" => ~options.httpUrl
                  /\ calls'[c].result = "http" <=>
                        (calls[c].state = "http" /\ ~HttpFailed(httpReply'))
                  /\ calls'[c].result = "sent" =>
                        calls'[c].sock = GetActiveWs(Cur)
                  /\ calls'[c].result = "noconn" <=>
                        (calls'[c].result # "http" /\ GetActiveWs(Cur) = NoSock)
            /\ (calls[c].kind = "sendAction"
                /\ calls[c].state \in {"resolved", "rejected"}) =>
                  calls'[c] = calls[c]]_vars

\* the POST of a sendAction call failed and the call has sent its one frame
\* on the reverse socket
C36_Witness ==
    \E c \in SendActionCalls :
        /\ options.httpUrl /\ HttpFailed(httpReply)
        /\ calls[c].result = "sent" /\ calls[c].frames = 1
        /\ calls[c].sock # Fwd

\* C35: a frame on a reverse connection leaves the forward connection's
\* liveness flag, attempt counter, socket and timers as they were; so a tick
\* that finds no forward frame since the tick before forces the forward
\* reconnect, whatever arrived on the reverse connection in between
C35_ReverseFramesDontFeedHeartbeat ==
    /\ [][\A r \in RevIds, f \in Frames :
            ReverseFrame(r, f) =>
                /\ isAlive' = isAlive /\ reconnectAttempts' = reconnectAttempts
                /\ ws' = ws /\ sinceTick' = sinceTick
                /\ reconnectTimer' = reconnectTimer /\ timeouts' = timeouts
                /\ heartbeatTimer' = heartbeatTimer /\ intervals' = intervals]_vars
    /\ [][(HeartbeatTick("none") /\ sinceTick = "none") =>
            /\ ws' = "null" /\ intervals' = {} /\ Cardinality(timeouts') = 1
            /\ DisconnectEvents(emitted') = 1]_vars

\* the forward socket is open and was silent since the last tick, and the
\* reverse connection has just delivered an event: the next tick forces the
\* forward reconnect
C35_Witness ==
    /\ ws = "OPEN" /\ sinceTick = "none" /\ ~isAlive
    /\ rev[1] = "OPEN"
    /\ Len(emitted) = 1 /\ emitted[1].type = "message"

\* C34 as stated: the latest client of the account, as long as it has not
\* been stopped, is the one the map holds for the account id, whichever stop
\* function is called
C34_LatestRunningIsRegistered == started => inMap

\* C40 as stated: every iteration of the chunking loop strictly shortens the
\* remaining text, for every text and every configured maxMessageLength,
\* the negative ones included
C40_LoopShortens ==
    [][SplitIterate => Len(job'.current) < Len(job.current)]_vars

\* C38 as stated: every text the reply deliver path hands to the client,
\* for a private, a group or a guild reply, the first chunk of a group reply
\* included, is no longer than config.maxMessageLength || 4000
C38_FramesWithinLimit ==
    job.op = "deliver" =>
        \A k \in 1..Len(sends) :
            sends[k].message.kind = "string" => Len(SentText(sends[k])) <= DeliverLimit

\* what holds of the reply deliver path: the chunks are no longer than the
\* limit, and so is every text but the first of a group reply, which is
\* longer than its chunk by the at-mention
C38_ChunksWithinLimit ==
    job.op = "deliver" =>
        /\ \A i \in 1..Len(job.chunks) : Len(job.chunks[i]) <= DeliverLimit
        /\ \A k \in 1..Len(sends) :
              /\ sends[k].message.at <=> (job.target.type = "group" /\ sends[k].chunk = 1)
              /\ Len(SentText(sends[k])) =
                    Len(job.chunks[sends[k].chunk])
                    + (IF sends[k].message.at THEN Len(AtMention(job.target.userId)) ELSE 0)

\* C37 as stated: an event whose sender is the bot itself (by the id the
\* client has learned, else by the event's self_id) is not handed on to the
\* pipeline and makes the listener call no outbound action, a poke of the
\* bot by itself included
C37_OwnEventsIgnored ==
    \A k \in 1..Len(handlers) :
        (handlers[k].selfId # 0 /\ handlers[k].ev.user_id = handlers[k].selfId) =>
            ~handlers[k].passed /\ handlers[k].poked = "none"

\* what holds: the bot's own event never goes on to the pipeline
C37_OwnEventsNotPassed ==
    \A k \in 1..Len(handlers) :
        (handlers[k].selfId # 0 /\ handlers[k].ev.user_id = handlers[k].selfId) =>
            ~handlers[k].passed

\* the marker of Group is set: its roster was fetched successfully
RosterMarked == \E b \in bulkCachedGroups : b.group = Group

\* the runs that wait for the roster of Group
RosterPending == {k \in 1..Len(runs) : runs[k].pc = "roster"}

\* the runs that rendered their mention with a cached name
Named == {k \in 1..Len(runs) : runs[k].mention = "name"}

\* the roster was fetched, no fetch is under way, and no entry of the cache
\* is less than an hour old
RosterExpired ==
    /\ RosterMarked /\ RosterPending = {}
    /\ \A m \in memberCache : ~m.fresh

\* C39: a run renders a mention with a cached name only if the entry is less
\* than an hour old at that moment; once the marker of the group is set no
\* run issues the roster fetch; and so, once the entries are an hour old,
\* they stay so and every later mention in the group is rendered with the
\* raw id
C39_NamesExpireForGood ==
    /\ [][\A k \in Named' :
            (k \notin 1..Len(runs) \/ k \notin Named) =>
                \E m \in memberCache' :
                    m.group = Group /\ m.user = runs'[k].ev.at /\ m.fresh]_vars
    /\ [][RosterMarked =>
            /\ RosterMarked'
            /\ RosterFetches' = RosterFetches
            /\ RosterPending' \subseteq RosterPending]_vars
    /\ [][RosterExpired =>
            /\ RosterExpired'
            /\ Named' = Named
            /\ \A k \in 1..Len(runs') :
                  (k > Len(runs) /\ runs'[k].pc # "dropped") =>
                      runs'[k].mention = "rawid" /\ ~runs'[k].fetched]_vars

\* the roster was fetched and its entries are an hour old: a later event
\* that mentions the member found the marker, fetched nothing and rendered
\* the raw id
C39_Witness ==
    /\ RosterExpired
    /\ \E k \in 1..Len(runs) :
          /\ runs[k].ev.at = Member /\ runs[k].markerFrom = "A"
          /\ runs[k].mention = "rawid" /\ ~runs[k].fetched
    /\ \E m \in memberCache : m.group = Group /\ m.user = Member

====
